---- MODULE Spec2Model ----
(***************************************************************************)
(* A model of the PULSE agent runtime (pulse_agents/agent.py): the task    *)
(* queue, the dispatch loop (_process_loop / _process_task), the heartbeat *)
(* loop, start/stop and handler registration.                              *)
(*                                                                         *)
(* The agent runs on one asyncio event loop, so every block of code        *)
(* between two awaits is one atomic action.  Time is discrete: one Tick is *)
(* one second, and every timer (the 1 s queue wait, wait_for's deadline on *)
(* a handler, the heartbeat sleep) is a countdown that Tick decrements and *)
(* that must fire before time moves past it.                               *)
(***************************************************************************)
EXTENDS Integers, Sequences, FiniteSets, TLC

(***************************************************************************)
(* Bounds of the model.                                                    *)
(***************************************************************************)
MaxTasks == 2            \* Task objects created and submitted
HeartbeatInterval == 1   \* config.heartbeat_interval_ms / 1000 of the modelled agent
MaxBeats == 2             \* last_heartbeat stamps cycle through 1..MaxBeats
\* set_working calls in one run
MaxInserts == 101
\* the largest limit passed to search
MaxLimit == 2
\* call() invocations in one run
MaxCalls == 3
\* processes launched by execute() in one run
MaxExecutions == 3
\* set_working calls beyond max_short_term in one run of a reader and a writer
ExtraSets == 2
\* get_working / retrieve calls that find their key, beyond max_short_term
ExtraReads == 1
\* vectors added to the similarity index in one run
MaxSlots == 3

(***************************************************************************)
(* Program constants.                                                      *)
(***************************************************************************)
PollInterval == 1        \* wait_for(self._task_queue.get(), timeout=1.0)
MaxConcurrentTasks == 1  \* AgentConfig.max_concurrent_tasks
DefaultMaxShortTerm == 100  \* ContextManager(max_short_term=100)
DefaultTools == {"git"}     \* ToolAdapter._register_default_tools
DefaultEmbeddingDim == 384  \* ContextManager(embedding_dim=384)
HashFloats == 8             \* a sha256 digest is 32 bytes: 8 float32 values
DefaultPriority == 5     \* Task.priority
DefaultMaxRetries == 3   \* Task.max_retries

None == 0                \* Python's None where a task id is expected
TaskIds == 1..MaxTasks
Loops == {1, 2}          \* the n-th call of start() runs dispatch loop n and heartbeat loop n
Priorities == {1, DefaultPriority}
Timeouts == {1, 2}       \* task.timeout_ms / 1000 of the submitted tasks

(***************************************************************************)
(* Python values.  A handler's return value is a mapping or something      *)
(* else; task.result is Optional[Dict].                                    *)
(***************************************************************************)
NoneValue == [isdict |-> FALSE, keys |-> {}, val |-> "None"]
PingResult == [isdict |-> TRUE, keys |-> {"pong", "timestamp"}, val |-> "True"]
StatusResult == [isdict |-> TRUE, keys |-> {"id", "name", "status"}, val |-> "state"]
ExecuteResult == [isdict |-> TRUE, keys |-> {"executed", "task_id"}, val |-> "True"]
UserDict == [isdict |-> TRUE, keys |-> {"answer"}, val |-> "42"]
UserScalar == [isdict |-> FALSE, keys |-> {}, val |-> "42"]

(***************************************************************************)
(* Error strings: a format and its argument.  NoneError is error = None.   *)
(***************************************************************************)
NoneError == [text |-> "None", arg |-> ""]
TimeoutError(timeout) == [text |-> "Task timed out after {timeout_ms}ms", arg |-> ToString(timeout * 1000)]
NoHandlerError(task_type) == [text |-> "No handler for task type: {task_type}", arg |-> task_type]
StrOf(exc) == exc.msg                  \* str(e)

(***************************************************************************)
(* Exceptions a handler raises (subclasses of Exception), and the one      *)
(* asyncio.wait_for raises at its deadline.                                *)
(***************************************************************************)
NoMessage == [text |-> "", arg |-> ""]
HandlerExceptions == {[type |-> "ValueError", msg |-> [text |-> "boom", arg |-> ""]],
                      [type |-> "TimeoutError", msg |-> [text |-> "upstream timed out", arg |-> ""]]}
WaitForTimeout == [type |-> "TimeoutError", msg |-> NoMessage]
\* Mutant: self._handlers[task.task_type] raises KeyError, whose str is the key.
NoHandlerKeyError(task_type) ==
    [type |-> "KeyError", msg |-> [text |-> "{task_type}", arg |-> task_type]]

NoHandlerRaised(task_type) == [type |-> "ValueError", msg |-> NoHandlerError(task_type)]

(***************************************************************************)
(* Handlers.  The three defaults are coroutines without an await: they     *)
(* return at once.  A user handler is arbitrary code: it returns a mapping *)
(* or another value, raises, or is still running at the deadline.          *)
(***************************************************************************)
NoHandler == "None"
DefaultHandlers == {"_handle_ping", "_handle_status", "_handle_execute"}
UserHandlers == {"h1", "h2"}
HandlerTypes == {"ping", "status", "execute", "job"}
SubmitTypes == {"ping", "job"}         \* task types the modelled callers submit
RegisterTypes == {"job"}               \* task types the modelled callers register

Returns(h) ==
    CASE h = "_handle_ping" -> {PingResult}
      [] h = "_handle_status" -> {StatusResult}
      [] h = "_handle_execute" -> {ExecuteResult}
      [] OTHER -> {UserDict, UserScalar}

VARIABLES
    agent,          \* the Agent's public fields
    _running,       \* Agent._running
    _handlers,      \* Agent._handlers: task_type -> handler
    _task_queue,    \* Agent._task_queue: task ids, head first
    tasks,          \* the Task objects created so far, by id
    has_client,     \* Agent.kernel_client is not None
    loop_pc,        \* per dispatch loop: "init", "wait", "handler", "done"
    loop_task,      \* per dispatch loop: the task its _process_task holds
    loop_handler,   \* per dispatch loop: the handler it awaits
    poll_left,      \* per dispatch loop: seconds left of the queue wait
    handler_left,   \* per dispatch loop: seconds left of wait_for's deadline
    hb_pc,          \* per heartbeat loop: "init", "scheduled", "rpc", "sleep", "done"
    hb_left,        \* per heartbeat loop: seconds left of the sleep
    hb_failed,      \* history, per heartbeat loop: its last notification raised
    stopped,        \* history: stop() has been called on a started agent
    hist,           \* history, per task: how it was submitted and what its handler did
    max_short_term, \* ContextManager.max_short_term
    _short_term,    \* ContextManager._short_term: the entries in dict order
    set_count,      \* history: the number of set_working calls so far
    storage_path,   \* ContextManager.storage_path is set
    _long_term,     \* ContextManager._long_term: the entries in dict order
    storage,        \* the directory at storage_path: file name -> JSON document
    last_stored,    \* history: key -> the value of the last store(key, ...)
    reloaded,       \* history: this store was filled by load_from_storage
    last_search,    \* history: the last search call and what it returned
    embedding_dim,  \* ContextManager.embedding_dim
    _index,         \* ContextManager._index: whether it exists (faiss was imported),
                    \* its dimension and the vectors added, slot 0 first
    _id_to_key,     \* ContextManager._id_to_key: slot -> key
    indexed,        \* history: the keys of the stores that added a vector, in order
    clock,          \* the time datetime.utcnow() returns to the next access
    last_access,    \* history: the last set_working / get_working / retrieve call
    _session,       \* KernelClient._session: "None", "open", "closed"
    _ws,            \* KernelClient._ws: "None", "open"
    _request_id,    \* KernelClient._request_id
    kc_pc,          \* connect() / disconnect(): "idle", "connecting", "closing_ws",
                    \* "closing_session"
    calls,          \* the call() invocations in the order they were made
    sent,           \* history: the ids of the requests posted, in order
    connected,      \* history: the last of connect() / disconnect() to return was
                    \* a connect() that succeeded
    _tools,         \* ToolAdapter._tools: the registered tool names
    tool_pc,        \* execute(): "idle", "running" (the process is awaited)
    tool_result,    \* history: how the last execute() ended
    launched        \* history: the number of processes launched

vars == <<agent, _running, _handlers, _task_queue, tasks, has_client,
          loop_pc, loop_task, loop_handler, poll_left, handler_left,
          hb_pc, hb_left, hb_failed, stopped, hist,
          max_short_term, _short_term, set_count,
          storage_path, _long_term, storage, last_stored, reloaded, last_search,
          embedding_dim, _index, _id_to_key, indexed,
          clock, last_access,
          _session, _ws, _request_id, kc_pc, calls, sent, connected,
          _tools, tool_pc, tool_result, launched>>

loopVars == <<loop_pc, loop_task, loop_handler, poll_left, handler_left>>
hbVars == <<hb_pc, hb_left, hb_failed>>
agentVars == <<agent, _running, _handlers, _task_queue, tasks, has_client,
               loopVars, hbVars, stopped, hist>>
workingVars == <<max_short_term, _short_term, set_count>>
longTermVars == <<storage_path, _long_term, storage, last_stored, reloaded, last_search>>
indexVars == <<embedding_dim, _index, _id_to_key, indexed>>
accessVars == <<clock, last_access>>
memVars == <<workingVars, longTermVars, indexVars, accessVars>>
kcVars == <<_session, _ws, _request_id, kc_pc, calls, sent, connected>>
\* what the agent's two loops and its public operations never write
toolVars == <<_tools, tool_pc, tool_result, launched>>
outside == <<has_client, memVars, kcVars, toolVars>>
\* what the ContextManager never writes
notMemory == <<agentVars, kcVars, toolVars>>
\* what the KernelClient never writes
notClient == <<agentVars, memVars, toolVars>>
\* what the ToolAdapter never writes
notTools == <<agentVars, memVars, kcVars>>

Min(a, b) == IF a < b THEN a ELSE b

(***************************************************************************)
(* Construction.                                                           *)
(***************************************************************************)
NewAgent ==
    [status |-> "idle", health |-> "healthy", current_task |-> None,
     task_count |-> 0, success_count |-> 0, failure_count |-> 0,
     last_heartbeat |-> None, last_error |-> NoneError]

DefaultHandlerMap ==
    [tt \in HandlerTypes |->
        CASE tt = "ping" -> "_handle_ping"
          [] tt = "status" -> "_handle_status"
          [] tt = "execute" -> "_handle_execute"
          [] OTHER -> NoHandler]

NewTask(task_type, priority, timeout) ==
    [task_type |-> task_type, priority |-> priority, status |-> "pending",
     timeout |-> timeout, retry_count |-> 0, max_retries |-> DefaultMaxRetries,
     result |-> NoneValue, error |-> NoneError,
     started |-> FALSE, completed |-> FALSE]

NewHist(sub_running) ==
    [sub_running |-> sub_running, waited |-> 0,
     handler |-> NoHandler, outcome |-> "none", returned |-> NoneValue,
     raised |-> NoMessage, at_stop |-> FALSE]

InitAgent ==
    /\ agent = NewAgent
    /\ _running = FALSE
    /\ _handlers = DefaultHandlerMap
    /\ _task_queue = <<>>
    /\ tasks = <<>>
    /\ loop_pc = [l \in Loops |-> "init"]
    /\ loop_task = [l \in Loops |-> None]
    /\ loop_handler = [l \in Loops |-> NoHandler]
    /\ poll_left = [l \in Loops |-> 0]
    /\ handler_left = [l \in Loops |-> 0]
    /\ hb_pc = [l \in Loops |-> "init"]
    /\ hb_left = [l \in Loops |-> 0]
    /\ hb_failed = [l \in Loops |-> FALSE]
    /\ stopped = FALSE
    /\ hist = <<>>

\* a function with no argument: an empty dict, an empty directory
Empty == [x \in {} |-> None]

NoSearch == [query |-> <<>>, limit |-> 0, searched |-> FALSE, raised |-> FALSE,
             results |-> <<>>]

NoAccess == [op |-> "none", key |-> None, found |-> FALSE, value |-> None]

\* self._index: None without faiss, else faiss.IndexFlatIP(embedding_dim)
NewIndex(faiss, dim) == [exists |-> faiss, d |-> dim, vectors |-> <<>>]

\* ContextManager(embedding_dim=dim, max_short_term=size, storage_path=path) on
\* an empty directory, with faiss importable or not
NewContextManagerWith(size, path, faiss, dim) ==
    /\ max_short_term = size
    /\ _short_term = <<>>
    /\ set_count = 0
    /\ storage_path = path
    /\ _long_term = <<>>
    /\ storage = Empty
    /\ last_stored = Empty
    /\ reloaded = FALSE
    /\ last_search = NoSearch
    /\ embedding_dim = dim
    /\ _index = NewIndex(faiss, dim)
    /\ _id_to_key = Empty
    /\ indexed = <<>>
    /\ clock = 1
    /\ last_access = NoAccess

\* ContextManager(max_short_term=size, storage_path=path) without faiss
NewContextManager(size, path) ==
    NewContextManagerWith(size, path, FALSE, DefaultEmbeddingDim)

\* ContextManager()
InitContextManager == NewContextManager(DefaultMaxShortTerm, FALSE)

\* KernelClient()
InitKernelClient ==
    /\ _session = "None"
    /\ _ws = "None"
    /\ _request_id = 0
    /\ kc_pc = "idle"
    /\ calls = <<>>
    /\ sent = <<>>
    /\ connected = FALSE

NoToolResult == [how |-> "none", raised |-> FALSE, code |-> 0, output |-> "empty",
                 success |-> FALSE, exit_code |-> 0, metadata |-> {}]

\* ToolAdapter(): _register_default_tools registers git unconditionally
InitToolAdapter ==
    /\ _tools = DefaultTools
    /\ tool_pc = "idle"
    /\ tool_result = NoToolResult
    /\ launched = 0

\* the collaborators of an Agent that a run of the agent leaves alone
InitOthers == InitContextManager /\ InitKernelClient /\ InitToolAdapter

\* Agent(name): kernel_client defaults to None
Init == InitAgent /\ has_client = FALSE /\ InitOthers

\* Agent(name, kernel_client=...) with or without a client
InitClient == InitAgent /\ has_client \in BOOLEAN /\ InitOthers

(***************************************************************************)
(* _process_task, as updates of the Task and of the Agent.                 *)
(***************************************************************************)
\* Mutant: the value is stored as the handler returned it.
NoWrap(result) == result

\* task.result = result if isinstance(result, dict) else {"result": result}
WrapResult(result) ==
    IF result.isdict THEN result
    ELSE [isdict |-> TRUE, keys |-> {"result"}, val |-> result.val]

\* self.status = EXECUTING; self.current_task = task
AgentBegin(a, t) == [a EXCEPT !.status = "executing", !.current_task = t]

\* task.started_at = utcnow(); task.status = "running"
TaskBegin(task) == [task EXCEPT !.started = TRUE, !.status = "running"]

\* Mutant: the result is dropped.
TaskCompletedNoResult(task, result) ==
    [task EXCEPT !.status = "completed", !.completed = TRUE]

\* the end of the try block: the handler returned `result` before the deadline
TaskCompleted(task, result) ==
    [task EXCEPT !.result = WrapResult(result), !.status = "completed", !.completed = TRUE]

AgentSuccess(a) == [a EXCEPT !.success_count = @ + 1]

\* which except clause catches `exc`, and the error string it records
ErrorOf(task, exc) ==
    IF exc.type = "TimeoutError" THEN TimeoutError(task.timeout) ELSE StrOf(exc)

\* Mutant: a failure is counted as a retry.
TaskFailedCountsRetry(task, err) ==
    [task EXCEPT !.error = err, !.status = "failed", !.retry_count = @ + 1]

\* both except clauses: task.error = ...; task.status = "failed"
TaskFailed(task, err) == [task EXCEPT !.error = err, !.status = "failed"]

\* both except clauses: self.failure_count += 1; self.last_error = task.error
AgentFailure(a, err) == [a EXCEPT !.failure_count = @ + 1, !.last_error = err]

\* Mutant: the finally block forgets the count.
AgentFinallyNoCount(a) == [a EXCEPT !.status = "idle", !.current_task = None]

\* finally: self.status = IDLE; self.current_task = None; self.task_count += 1
AgentFinally(a) == [a EXCEPT !.status = "idle", !.current_task = None, !.task_count = @ + 1]

\* Mutant: a priority queue, the smaller priority number first.
RECURSIVE EnqueueByPriority(_, _, _)
EnqueueByPriority(queue, t, ts) ==
    IF queue = <<>> THEN <<t>>
    ELSE IF ts[t].priority < ts[Head(queue)].priority THEN <<t>> \o queue
    ELSE <<Head(queue)>> \o EnqueueByPriority(Tail(queue), t, ts)

\* self._task_queue.put_nowait(task)
Enqueue(queue, t, ts) == Append(queue, t)

(***************************************************************************)
(* The dispatch loop.  Back at `while self._running` after an iteration:   *)
(* the loop waits on the queue again, or ends.                             *)
(***************************************************************************)
LoopAgain(running) == IF running THEN "wait" ELSE "done"

NextIteration(l) ==
    /\ loop_pc' = [loop_pc EXCEPT ![l] = LoopAgain(_running)]
    /\ poll_left' = [poll_left EXCEPT ![l] = IF _running THEN PollInterval ELSE 0]
    /\ loop_task' = [loop_task EXCEPT ![l] = None]
    /\ loop_handler' = [loop_handler EXCEPT ![l] = NoHandler]
    /\ handler_left' = [handler_left EXCEPT ![l] = 0]

\* The except/finally path of _process_task for task t and exception exc.
FailTask(t, begun, a, exc, how) ==
    LET err == ErrorOf(begun, exc) IN
    /\ tasks' = [tasks EXCEPT ![t] = TaskFailed(begun, err)]
    /\ agent' = AgentFinally(AgentFailure(a, err))
    /\ hist' = [hist EXCEPT ![t].outcome = how, ![t].raised = exc.msg, ![t].waited = 0]

\* Mutant: the handler is the one the agent was constructed with.
DequeueDefaultHandler(l) ==
    /\ loop_pc[l] = "wait"
    /\ _task_queue # <<>>
    /\ LET t == Head(_task_queue)
           h == DefaultHandlerMap[tasks[t].task_type]
       IN  /\ _task_queue' = Tail(_task_queue)
           /\ IF h = NoHandler
              THEN /\ FailTask(t, TaskBegin(tasks[t]), AgentBegin(agent, t),
                               NoHandlerRaised(tasks[t].task_type), "nohandler")
                   /\ NextIteration(l)
              ELSE /\ tasks' = [tasks EXCEPT ![t] = TaskBegin(@)]
                   /\ agent' = AgentBegin(agent, t)
                   /\ hist' = [hist EXCEPT ![t].handler = h]
                   /\ loop_pc' = [loop_pc EXCEPT ![l] = "handler"]
                   /\ loop_task' = [loop_task EXCEPT ![l] = t]
                   /\ loop_handler' = [loop_handler EXCEPT ![l] = h]
                   /\ handler_left' = [handler_left EXCEPT ![l] = tasks[t].timeout]
                   /\ poll_left' = [poll_left EXCEPT ![l] = 0]
    /\ UNCHANGED <<_running, _handlers, outside, hbVars, stopped>>

\* queue.get() hands the loop the head of the queue and _process_task runs up
\* to its first await: without a handler it fails the task right there.
Dequeue(l) ==
    /\ loop_pc[l] = "wait"
    /\ _task_queue # <<>>
    /\ LET t == Head(_task_queue)
           h == _handlers[tasks[t].task_type]
       IN  /\ _task_queue' = Tail(_task_queue)
           /\ IF h = NoHandler
              THEN /\ FailTask(t, TaskBegin(tasks[t]), AgentBegin(agent, t),
                               NoHandlerRaised(tasks[t].task_type), "nohandler")
                   /\ NextIteration(l)
              ELSE /\ tasks' = [tasks EXCEPT ![t] = TaskBegin(@)]
                   /\ agent' = AgentBegin(agent, t)
                   /\ hist' = [hist EXCEPT ![t].handler = h]
                   /\ loop_pc' = [loop_pc EXCEPT ![l] = "handler"]
                   /\ loop_task' = [loop_task EXCEPT ![l] = t]
                   /\ loop_handler' = [loop_handler EXCEPT ![l] = h]
                   /\ handler_left' = [handler_left EXCEPT ![l] = tasks[t].timeout]
                   /\ poll_left' = [poll_left EXCEPT ![l] = 0]
    /\ UNCHANGED <<_running, _handlers, outside, hbVars, stopped>>

\* A default handler has no await and returns at once; a user handler may
\* take any time up to the deadline.
Immediate(h) == h \in DefaultHandlers

\* await asyncio.wait_for(handler(task), ...) returns `result`.
HandlerReturns(l, result) ==
    /\ loop_pc[l] = "handler"
    /\ result \in Returns(loop_handler[l])
    /\ LET t == loop_task[l] IN
        /\ tasks' = [tasks EXCEPT ![t] = TaskCompleted(@, result)]
        /\ agent' = AgentFinally(AgentSuccess(agent))
        /\ hist' = [hist EXCEPT ![t].outcome = "return", ![t].returned = result,
                                ![t].waited = 0]
    /\ NextIteration(l)
    /\ UNCHANGED <<_running, _handlers, _task_queue, outside, hbVars, stopped>>

\* Mutant: the exception leaves _process_task and ends the dispatch loop.
HandlerRaisesEscapes(l, exc) ==
    /\ loop_pc[l] = "handler"
    /\ ~Immediate(loop_handler[l])
    /\ exc \in HandlerExceptions
    /\ FailTask(loop_task[l], tasks[loop_task[l]], agent, exc, "raise")
    /\ loop_pc' = [loop_pc EXCEPT ![l] = "done"]
    /\ poll_left' = [poll_left EXCEPT ![l] = 0]
    /\ loop_task' = [loop_task EXCEPT ![l] = None]
    /\ loop_handler' = [loop_handler EXCEPT ![l] = NoHandler]
    /\ handler_left' = [handler_left EXCEPT ![l] = 0]
    /\ UNCHANGED <<_running, _handlers, _task_queue, outside, hbVars, stopped>>

\* The handler raises `exc` before the deadline.
HandlerRaises(l, exc) ==
    /\ loop_pc[l] = "handler"
    /\ ~Immediate(loop_handler[l])
    /\ exc \in HandlerExceptions
    /\ FailTask(loop_task[l], tasks[loop_task[l]], agent, exc, "raise")
    /\ NextIteration(l)
    /\ UNCHANGED <<_running, _handlers, _task_queue, outside, hbVars, stopped>>

\* Mutant: the timeout fires whatever is left of the deadline.
HandlerTimesOutEarly(l) ==
    /\ loop_pc[l] = "handler"
    /\ ~Immediate(loop_handler[l])
    /\ FailTask(loop_task[l], tasks[loop_task[l]], agent, WaitForTimeout, "timeout")
    /\ NextIteration(l)
    /\ UNCHANGED <<_running, _handlers, _task_queue, outside, hbVars, stopped>>

\* The deadline passes: wait_for cancels the handler and raises TimeoutError.
HandlerTimesOut(l) ==
    /\ loop_pc[l] = "handler"
    /\ ~Immediate(loop_handler[l])
    /\ handler_left[l] = 0
    /\ FailTask(loop_task[l], tasks[loop_task[l]], agent, WaitForTimeout, "timeout")
    /\ NextIteration(l)
    /\ UNCHANGED <<_running, _handlers, _task_queue, outside, hbVars, stopped>>

\* The queue stayed empty for the poll interval: except TimeoutError: continue.
PollTimeout(l) ==
    /\ loop_pc[l] = "wait"
    /\ _task_queue = <<>>
    /\ poll_left[l] = 0
    /\ NextIteration(l)
    /\ UNCHANGED <<agent, _running, _handlers, _task_queue, tasks, outside,
                   hbVars, stopped, hist>>

(***************************************************************************)
(* The public operations.                                                  *)
(***************************************************************************)
\* start(): self._running = True; create_task(self._heartbeat_loop());
\* await self._process_loop(), which runs to its first await, the queue wait.
StartAgent(l) ==
    /\ loop_pc[l] = "init"
    /\ \A k \in Loops : k < l => loop_pc[k] # "init"
    /\ _running' = TRUE
    /\ hb_pc' = [hb_pc EXCEPT ![l] = "scheduled"]
    /\ loop_pc' = [loop_pc EXCEPT ![l] = LoopAgain(TRUE)]
    /\ poll_left' = [poll_left EXCEPT ![l] = PollInterval]
    /\ UNCHANGED <<agent, _handlers, _task_queue, tasks, outside, loop_task,
                   loop_handler, handler_left, hb_left, hb_failed, stopped, hist>>

\* Mutant: stop() also cancels the dispatch loop's task.
StopCancels ==
    /\ _running' = FALSE
    /\ stopped' = (stopped \/ \E l \in Loops : loop_pc[l] # "init")
    /\ hist' = [t \in DOMAIN hist |->
                  [hist[t] EXCEPT !.at_stop = @ \/ (tasks[t].status = "running"
                                                     /\ \E l \in Loops : loop_pc[l] # "init")]]
    /\ loop_pc' = [l \in Loops |-> IF loop_pc[l] = "init" THEN "init" ELSE "done"]
    /\ UNCHANGED <<agent, _handlers, _task_queue, tasks, outside, loop_task,
                   loop_handler, poll_left, handler_left, hbVars>>

\* stop(): self._running = False
Stop ==
    /\ _running' = FALSE
    /\ stopped' = (stopped \/ \E l \in Loops : loop_pc[l] # "init")
    /\ hist' = [t \in DOMAIN hist |->
                  [hist[t] EXCEPT !.at_stop = @ \/ (tasks[t].status = "running"
                                                     /\ \E l \in Loops : loop_pc[l] # "init")]]
    /\ UNCHANGED <<agent, _handlers, _task_queue, tasks, outside, loopVars, hbVars>>

\* submit_task(task) with a Task the caller has just constructed.
SubmitTask(task_type, priority, timeout) ==
    /\ Len(tasks) < MaxTasks
    /\ LET t == Len(tasks) + 1
           ts == Append(tasks, NewTask(task_type, priority, timeout))
       IN  /\ tasks' = ts
           /\ _task_queue' = Enqueue(_task_queue, t, ts)
           /\ hist' = Append(hist, NewHist(_running))
    /\ UNCHANGED <<agent, _running, _handlers, outside, loopVars, hbVars, stopped>>

\* register_handler(task_type, handler)
RegisterHandler(task_type, handler) ==
    /\ _handlers' = [_handlers EXCEPT ![task_type] = handler]
    /\ UNCHANGED <<agent, _running, _task_queue, tasks, outside, loopVars, hbVars,
                   stopped, hist>>

(***************************************************************************)
(* The heartbeat loop.                                                     *)
(***************************************************************************)
\* datetime.utcnow(): a stamp different from the previous one
Stamp(prev) == (prev % MaxBeats) + 1

\* Mutant: the iteration does not stamp last_heartbeat.
HeartbeatIterateNoStamp(l) ==
    /\ \/ hb_pc[l] = "scheduled"
       \/ hb_pc[l] = "sleep" /\ hb_left[l] = 0
    /\ agent' = agent
    /\ IF _running
       THEN /\ hb_pc' = [hb_pc EXCEPT ![l] = IF has_client THEN "rpc" ELSE "sleep"]
            /\ hb_left' = [hb_left EXCEPT ![l] = IF has_client THEN 0 ELSE HeartbeatInterval]
       ELSE /\ hb_pc' = [hb_pc EXCEPT ![l] = "done"]
            /\ hb_left' = [hb_left EXCEPT ![l] = 0]
    /\ UNCHANGED <<_running, _handlers, _task_queue, tasks, outside, loopVars,
                   hb_failed, stopped, hist>>

\* The top of `while self._running`, reached when the loop's task first runs
\* and every time its sleep ends.
HeartbeatIterate(l) ==
    /\ \/ hb_pc[l] = "scheduled"
       \/ hb_pc[l] = "sleep" /\ hb_left[l] = 0
    /\ IF _running
       THEN /\ agent' = [agent EXCEPT !.last_heartbeat = Stamp(@)]
            /\ hb_pc' = [hb_pc EXCEPT ![l] = IF has_client THEN "rpc" ELSE "sleep"]
            /\ hb_left' = [hb_left EXCEPT ![l] = IF has_client THEN 0 ELSE HeartbeatInterval]
       ELSE /\ agent' = agent
            /\ hb_pc' = [hb_pc EXCEPT ![l] = "done"]
            /\ hb_left' = [hb_left EXCEPT ![l] = 0]
    /\ UNCHANGED <<_running, _handlers, _task_queue, tasks, outside, loopVars,
                   hb_failed, stopped, hist>>

\* await self.kernel_client.send_heartbeat(self.id) returns
HeartbeatSent(l) ==
    /\ hb_pc[l] = "rpc"
    /\ hb_pc' = [hb_pc EXCEPT ![l] = "sleep"]
    /\ hb_left' = [hb_left EXCEPT ![l] = HeartbeatInterval]
    /\ hb_failed' = [hb_failed EXCEPT ![l] = FALSE]
    /\ UNCHANGED <<agent, _running, _handlers, _task_queue, tasks, outside,
                   loopVars, stopped, hist>>

\* Mutant: the exception of send_heartbeat ends the heartbeat loop.
HeartbeatFailedEscapes(l) ==
    /\ hb_pc[l] = "rpc"
    /\ hb_pc' = [hb_pc EXCEPT ![l] = "done"]
    /\ hb_left' = [hb_left EXCEPT ![l] = 0]
    /\ hb_failed' = [hb_failed EXCEPT ![l] = TRUE]
    /\ UNCHANGED <<agent, _running, _handlers, _task_queue, tasks, outside,
                   loopVars, stopped, hist>>

\* send_heartbeat raises: except Exception: logger.warning(...)
HeartbeatFailed(l) ==
    /\ hb_pc[l] = "rpc"
    /\ hb_pc' = [hb_pc EXCEPT ![l] = "sleep"]
    /\ hb_left' = [hb_left EXCEPT ![l] = HeartbeatInterval]
    /\ hb_failed' = [hb_failed EXCEPT ![l] = TRUE]
    /\ UNCHANGED <<agent, _running, _handlers, _task_queue, tasks, outside,
                   loopVars, stopped, hist>>

(***************************************************************************)
(* Time.  A second passes only when nothing of the dispatch loop is due at *)
(* this instant: no expired timer, no queue item for a waiting loop, no    *)
(* handler that returns at once.  asyncio.sleep lasts at least its         *)
(* interval: the heartbeat loop wakes at or after the end of its sleep.    *)
(***************************************************************************)
Due ==
    \E l \in Loops :
        \/ loop_pc[l] = "wait" /\ (poll_left[l] = 0 \/ _task_queue # <<>>)
        \/ loop_pc[l] = "handler" /\ (Immediate(loop_handler[l]) \/ handler_left[l] = 0)

Tick ==
    /\ ~Due
    /\ poll_left' = [l \in Loops |-> IF loop_pc[l] = "wait" THEN poll_left[l] - 1 ELSE poll_left[l]]
    /\ handler_left' = [l \in Loops |->
                          IF loop_pc[l] = "handler" THEN handler_left[l] - 1 ELSE handler_left[l]]
    /\ hb_left' = [l \in Loops |->
                     IF hb_pc[l] = "sleep" /\ hb_left[l] > 0 THEN hb_left[l] - 1 ELSE hb_left[l]]
    /\ hist' = [t \in DOMAIN hist |->
                  [hist[t] EXCEPT
                     !.waited = IF tasks[t].status = "pending"
                                THEN Min(@ + 1, PollInterval + 1) ELSE @]]
    /\ UNCHANGED <<agent, _running, _handlers, _task_queue, tasks, outside,
                   loop_pc, loop_task, loop_handler, hb_pc, hb_failed, stopped>>

(***************************************************************************)
(* The working tier of the ContextManager.  _short_term is a dict: its     *)
(* entries are kept in the order their keys were first inserted, and an    *)
(* overwrite keeps the key's place.                                        *)
(***************************************************************************)
\* MemoryEntry(key, value, "working"): access_count 0, last_accessed None
NewWorkingEntry(key, value) ==
    [key |-> key, value |-> value, access_count |-> 0, last_accessed |-> None]

KeysOf(entries) == {entries[i].key : i \in DOMAIN entries}

\* self._short_term[key] = entry
PutEntry(entries, e) ==
    IF e.key \in KeysOf(entries)
    THEN [i \in DOMAIN entries |-> IF entries[i].key = e.key THEN e ELSE entries[i]]
    ELSE Append(entries, e)

\* Mutant: the sort key is access_count alone.
RankBeforeByCount(a, b) == a.access_count < b.access_count

\* the sort key (access_count, last_accessed or datetime.min), compared as tuples
RankBefore(a, b) ==
    \/ a.access_count < b.access_count
    \/ a.access_count = b.access_count /\ a.last_accessed < b.last_accessed

\* sorted() is stable: entry i comes after the entries that rank before it
\* and after the earlier entries of the same rank
SortPosition(entries, i) ==
    1 + Cardinality({j \in DOMAIN entries :
                        \/ RankBefore(entries[j], entries[i])
                        \/ ~RankBefore(entries[i], entries[j]) /\ j < i})

\* Mutant: 10% rounded up.
EvictCountRoundedUp(n) == (n + 9) \div 10

\* to_remove = int(len(sorted_entries) * 0.1)
EvictCount(n) == n \div 10

\* _evict_short_term: del self._short_term[key] for sorted_entries[:to_remove]
EvictShortTerm(entries) ==
    LET to_remove == EvictCount(Len(entries))
        gone == {entries[i].key :
                    i \in {j \in DOMAIN entries : SortPosition(entries, j) <= to_remove}}
    IN  SelectSeq(entries, LAMBDA e : e.key \notin gone)

\* set_working(key, value)
SetWorking(key, value) ==
    /\ set_count < MaxInserts
    /\ set_count' = set_count + 1
    /\ LET put == PutEntry(_short_term, NewWorkingEntry(key, value))
       IN  _short_term' = IF Len(put) > max_short_term THEN EvictShortTerm(put) ELSE put
    /\ last_access' = [op |-> "set", key |-> key, found |-> TRUE, value |-> value]
    /\ UNCHANGED <<notMemory, max_short_term, longTermVars, indexVars, clock>>

\* Mutant: the access is not counted.
TouchNoCount(entries, key, now) ==
    [i \in DOMAIN entries |->
        IF entries[i].key = key
        THEN [entries[i] EXCEPT !.last_accessed = now]
        ELSE entries[i]]

\* entry.access_count += 1; entry.last_accessed = datetime.utcnow()
Touch(entries, key, now) ==
    [i \in DOMAIN entries |->
        IF entries[i].key = key
        THEN [entries[i] EXCEPT !.access_count = @ + 1, !.last_accessed = now]
        ELSE entries[i]]

\* what get_working(key) / retrieve(key) return: entry.value, or None
Lookup(entries, key) ==
    IF key \in KeysOf(entries)
    THEN entries[CHOOSE i \in DOMAIN entries : entries[i].key = key].value
    ELSE None

\* get_working(key)
GetWorking(key) ==
    /\ clock <= max_short_term + ExtraReads
    /\ last_access' = [op |-> "get", key |-> key, found |-> key \in KeysOf(_short_term),
                       value |-> Lookup(_short_term, key)]
    /\ IF key \in KeysOf(_short_term)
       THEN /\ _short_term' = Touch(_short_term, key, clock)
            /\ clock' = clock + 1
       ELSE UNCHANGED <<_short_term, clock>>
    /\ UNCHANGED <<notMemory, max_short_term, set_count, longTermVars, indexVars>>

(***************************************************************************)
(* Strings are sequences of characters; a Python value is a str, or a list *)
(* or a tuple holding one str, or a set (which json cannot serialize).     *)
(***************************************************************************)
UpperLetters == <<"A", "B", "C", "D", "E", "F", "G", "H", "I", "J", "K", "L", "M",
                  "N", "O", "P", "Q", "R", "S", "T", "U", "V", "W", "X", "Y", "Z">>
LowerLetters == <<"a", "b", "c", "d", "e", "f", "g", "h", "i", "j", "k", "l", "m",
                  "n", "o", "p", "q", "r", "s", "t", "u", "v", "w", "x", "y", "z">>

LowerChar(c) ==
    IF \E i \in DOMAIN UpperLetters : UpperLetters[i] = c
    THEN LowerLetters[CHOOSE i \in DOMAIN UpperLetters : UpperLetters[i] = c]
    ELSE c

\* str.lower()
Lower(str) == [i \in DOMAIN str |-> LowerChar(str[i])]

\* sub in str
Contains(str, sub) ==
    \E i \in 0..(Len(str) - Len(sub)) : SubSeq(str, i + 1, i + Len(sub)) = sub

StrValue(text) == [kind |-> "str", text |-> text]
ListValue(text) == [kind |-> "list", text |-> text]
TupleValue(text) == [kind |-> "tuple", text |-> text]
SetValue(text) == [kind |-> "set", text |-> text]

\* json.dumps raises TypeError on a set
Serializable(value) == value.kind # "set"

Quoted(text) == <<"\"">> \o text \o <<"\"">>

\* json.dumps(value): a tuple is written as an array, like a list
JsonDumps(value) ==
    IF value.kind = "str" THEN Quoted(value.text)
    ELSE <<"[">> \o Quoted(value.text) \o <<"]">>

\* json.load: an array is read as a list
JsonLoads(doc) ==
    IF doc[1] = "["
    THEN ListValue(SubSeq(doc, 3, Len(doc) - 2))
    ELSE StrValue(SubSeq(doc, 2, Len(doc) - 1))

(***************************************************************************)
(* The long-term tier, keyword search and persistence (no similarity       *)
(* index: self._index is None and _compute_embedding returns None).        *)
(***************************************************************************)
DefaultImportance == "0.5"
KeywordScore == "0.5"

\* MemoryEntry(key, value, memory_type, importance)
NewLongTermEntry(key, value, memory_type) ==
    [key |-> key, value |-> value, memory_type |-> memory_type,
     importance |-> DefaultImportance, access_count |-> 0, last_accessed |-> None]

\* storage_path / f"{entry.key}.json"
FileName(key) == key \o <<".", "j", "s", "o", "n">>

\* _persist_entry: the document json.dump writes
PersistDocument(entry) ==
    [key |-> entry.key, value |-> JsonDumps(entry.value),
     memory_type |-> entry.memory_type, importance |-> entry.importance,
     access_count |-> entry.access_count, last_accessed |-> entry.last_accessed]

\* load_from_storage: the MemoryEntry built from a document
LoadedEntry(doc) ==
    [key |-> doc.key, value |-> JsonLoads(doc.value),
     memory_type |-> doc.memory_type, importance |-> doc.importance,
     access_count |-> doc.access_count, last_accessed |-> doc.last_accessed]

\* d[k] = v on a dict
Assign(d, k, v) == [x \in DOMAIN d \cup {k} |-> IF x = k THEN v ELSE d[x]]

\* what retrieve(key) returns: the value, or None
ValueOf(entries, key) ==
    IF key \in KeysOf(entries)
    THEN entries[CHOOSE i \in DOMAIN entries : entries[i].key = key].value
    ELSE None

\* _compute_embedding(text) with faiss: np.frombuffer(digest[:dim * 4], float32)
\* has min(dim, 8) components; which numbers they are depends on the hash
ComputeEmbedding(text, dim) == [of |-> text, len |-> Min(dim, HashFloats)]

\* index.add / index.search assert that the vector has the index's dimension
Fits(embedding, index) == embedding.len = index.d

\* Mutant: the vector is not added.
IndexAddDropped(index, embedding) == index

\* self._index.add(np.array([embedding]))
IndexAdd(index, embedding) == [index EXCEPT !.vectors = Append(@, embedding)]

\* idx = len(self._id_to_key)
NextSlot(id_to_key) == Cardinality(DOMAIN id_to_key)

\* value_str = json.dumps(value) if not isinstance(value, str) else value
ValueStr(value) == IF value.kind = "str" THEN value.text ELSE JsonDumps(value)

\* store(key, value, memory_type): json.dumps(value) comes first and raises on
\* a value it cannot serialize; then the entry is put, its vector is added to
\* the index if there is one (index.add raises on a vector of another
\* dimension, which ends the call), and the entry is persisted.
Store(key, value, memory_type) ==
    /\ _index.exists => Len(_index.vectors) < MaxSlots
    /\ IF value.kind # "str" /\ ~Serializable(value)
       THEN UNCHANGED <<_long_term, storage, last_stored, last_search, _index,
                        _id_to_key, indexed>>
       ELSE LET entry == NewLongTermEntry(key, value, memory_type)
                embedding == ComputeEmbedding(ValueStr(value), embedding_dim)
            IN  /\ _long_term' = PutEntry(_long_term, entry)
                /\ last_search' = NoSearch
                /\ IF _index.exists /\ ~Fits(embedding, _index)
                   THEN UNCHANGED <<storage, last_stored, _index, _id_to_key, indexed>>
                   ELSE /\ IF _index.exists
                           THEN /\ _index' = IndexAdd(_index, embedding)
                                /\ _id_to_key' = Assign(_id_to_key, NextSlot(_id_to_key), key)
                                /\ indexed' = Append(indexed, key)
                           ELSE UNCHANGED <<_index, _id_to_key, indexed>>
                        /\ storage' = IF storage_path
                                       THEN Assign(storage, FileName(key),
                                                   PersistDocument(entry))
                                       ELSE storage
                        /\ last_stored' = Assign(last_stored, key, value)
    /\ UNCHANGED <<notMemory, workingVars, accessVars, storage_path, reloaded,
                   embedding_dim>>

\* retrieve(key)
Retrieve(key) ==
    /\ clock <= max_short_term + ExtraReads
    /\ last_access' = [op |-> "retrieve", key |-> key, found |-> key \in KeysOf(_long_term),
                       value |-> Lookup(_long_term, key)]
    /\ IF key \in KeysOf(_long_term)
       THEN /\ _long_term' = Touch(_long_term, key, clock)
            /\ clock' = clock + 1
       ELSE UNCHANGED <<_long_term, clock>>
    /\ UNCHANGED <<notMemory, workingVars, indexVars, storage_path, storage,
                   last_stored, reloaded, last_search>>

\* Mutant: every entry of the tier is a match.
MatchesAlways(entry, query) == TRUE

\* query_lower in value_str or query_lower in entry.key.lower()
Matches(entry, query) ==
    \/ Contains(Lower(JsonDumps(entry.value)), Lower(query))
    \/ Contains(Lower(entry.key), Lower(query))

SearchResult(entry) ==
    [key |-> entry.key, value |-> entry.value, score |-> KeywordScore,
     memory_type |-> entry.memory_type]

\* _keyword_search(query, limit): results[:limit]
KeywordSearch(entries, query, limit) ==
    LET found == SelectSeq(entries, LAMBDA e : Matches(e, query))
    IN  [i \in 1..Min(limit, Len(found)) |-> SearchResult(found[i])]

\* what index.search(query, limit) may return: the limit best slots by inner
\* product, which depend on the hashes, best first; the padding of -1 that
\* fills I when the index holds fewer vectors is in no mapping and left out
Hits(index, limit) ==
    LET slots == 0..(Len(index.vectors) - 1)
        n == Min(limit, Len(index.vectors))
    IN  {hits \in [1..n -> slots] : \A i, j \in 1..n : i # j => hits[i] # hits[j]}

IndexScore == "inner product"

\* the loop over zip(D[0], I[0]): a slot counts if it is in the mapping and
\* its key is in the long-term tier
IndexResults(hits, id_to_key, entries) ==
    LET known == SelectSeq(hits, LAMBDA idx : /\ idx \in DOMAIN id_to_key
                                             /\ id_to_key[idx] \in KeysOf(entries))
    IN  [i \in DOMAIN known |->
            LET key == id_to_key[known[i]]
                entry == entries[CHOOSE j \in DOMAIN entries : entries[j].key = key]
            IN  [key |-> key, value |-> entry.value, score |-> IndexScore,
                 memory_type |-> entry.memory_type]]

\* search(query, limit).  Without an index: the keyword search, where
\* json.dumps would raise on a value it cannot serialize.  With an index
\* (limit >= 1): index.search raises on a query vector of another dimension.
Search(query, limit) ==
    /\ IF _index.exists
       THEN LET raises == ~Fits(ComputeEmbedding(query, embedding_dim), _index) IN
            \E hits \in Hits(_index, limit) :
                last_search' = [query |-> query, limit |-> limit, searched |-> TRUE,
                                raised |-> raises,
                                results |-> IF raises THEN <<>>
                                            ELSE IndexResults(hits, _id_to_key, _long_term)]
       ELSE LET raises == \E i \in DOMAIN _long_term : ~Serializable(_long_term[i].value)
            IN  last_search' = [query |-> query, limit |-> limit, searched |-> TRUE,
                                raised |-> raises,
                                results |-> IF raises THEN <<>>
                                            ELSE KeywordSearch(_long_term, query, limit)]
    /\ UNCHANGED <<notMemory, workingVars, indexVars, accessVars, storage_path,
                   _long_term, storage, last_stored, reloaded>>

\* the orders in which glob("*.json") may yield the files
Orderings(names) ==
    {order \in [1..Cardinality(names) -> names] :
        \A i, j \in DOMAIN order : i # j => order[i] # order[j]}

\* A fresh ContextManager on the same storage_path, then load_from_storage().
Reload ==
    /\ _short_term' = <<>>
    /\ \E order \in Orderings(DOMAIN storage) :
          _long_term' = IF storage_path
                        THEN [i \in DOMAIN order |-> LoadedEntry(storage[order[i]])]
                        ELSE <<>>
    /\ reloaded' = TRUE
    /\ last_search' = NoSearch
    /\ _index' = NewIndex(_index.exists, embedding_dim)
    /\ _id_to_key' = Empty
    /\ indexed' = <<>>
    /\ UNCHANGED <<notMemory, max_short_term, set_count, accessVars, storage_path,
                   storage, last_stored, embedding_dim>>

(***************************************************************************)
(* The KernelClient.  A call is one record of `calls`: the correlation id  *)
(* it took (None if it took none), where it stands, the response it got    *)
(* and how it ended.                                                       *)
(***************************************************************************)
NoResponse == [has_error |-> FALSE, has_message |-> FALSE, message |-> "None",
               has_result |-> FALSE, result |-> "None"]
\* {"error": {"message": message}}
ErrorResponse(message) == [NoResponse EXCEPT !.has_error = TRUE, !.has_message = TRUE,
                                             !.message = message]
\* {"error": {"code": ...}}: an error object without a message
BareErrorResponse == [NoResponse EXCEPT !.has_error = TRUE]
\* {"result": result}
ResultResponse(result) == [NoResponse EXCEPT !.has_result = TRUE, !.result = result]

Pending == [kind |-> "pending", value |-> "None", error |-> "None"]
Returned(value) == [kind |-> "returned", value |-> value, error |-> "None"]
Raised(error) == [kind |-> "raised", value |-> "None", error |-> error]

\* raise RuntimeError("Not connected to kernel")
NotConnected == Raised("Not connected to kernel")
\* aiohttp: post() on a session that is closed
SessionIsClosed == Raised("Session is closed")
\* aiohttp: the request or the response is lost
TransportError == Raised("ClientError")

\* Mutant: the error member of the response is not looked at.
CallOutcomeIgnoresError(response) ==
    Returned(IF response.has_result THEN response.result ELSE "None")

\* if "error" in result: raise Exception(result["error"].get("message", "RPC error"))
\* return result.get("result")
CallOutcome(response) ==
    IF response.has_error
    THEN Raised(IF response.has_message THEN response.message ELSE "RPC error")
    ELSE Returned(IF response.has_result THEN response.result ELSE "None")

\* _next_id: self._request_id += 1
NextId(request_id) == request_id + 1

\* connect() up to await websockets.connect(self.kernel_url)
ConnectBegin ==
    /\ kc_pc = "idle"
    /\ kc_pc' = "connecting"
    /\ UNCHANGED <<notClient, _session, _ws, _request_id, calls, sent, connected>>

\* Mutant: a new connection starts the ids again.
ConnectDoneResetsIds ==
    /\ kc_pc = "connecting"
    /\ _ws' = "open"
    /\ _session' = "open"
    /\ _request_id' = 0
    /\ kc_pc' = "idle"
    /\ connected' = TRUE
    /\ UNCHANGED <<notClient, calls, sent>>

\* the websocket is up: self._ws = ...; self._session = aiohttp.ClientSession()
ConnectDone ==
    /\ kc_pc = "connecting"
    /\ _ws' = "open"
    /\ _session' = "open"
    /\ kc_pc' = "idle"
    /\ connected' = TRUE
    /\ UNCHANGED <<notClient, _request_id, calls, sent>>

\* websockets.connect raises: connect() leaves the client as it was
ConnectFailed ==
    /\ kc_pc = "connecting"
    /\ kc_pc' = "idle"
    /\ UNCHANGED <<notClient, _session, _ws, _request_id, calls, sent, connected>>

\* disconnect() from `if self._session:` on, given the session it finds
CloseSession(session) ==
    IF session # "None"
    THEN /\ _session' = "closed"
         /\ kc_pc' = "closing_session"
         /\ connected' = connected
    ELSE /\ _session' = session
         /\ kc_pc' = "idle"
         /\ connected' = FALSE

\* disconnect() up to its first await
DisconnectBegin ==
    /\ kc_pc = "idle"
    /\ IF _ws # "None"
       THEN /\ kc_pc' = "closing_ws"
            /\ UNCHANGED <<_session, connected>>
       ELSE CloseSession(_session)
    /\ UNCHANGED <<notClient, _ws, _request_id, calls, sent>>

\* await self._ws.close() returns: self._ws = None, then the session
WsClosed ==
    /\ kc_pc = "closing_ws"
    /\ _ws' = "None"
    /\ CloseSession(_session)
    /\ UNCHANGED <<notClient, _request_id, calls, sent>>

\* Mutant: the closed session is kept.
SessionClosedKept ==
    /\ kc_pc = "closing_session"
    /\ kc_pc' = "idle"
    /\ connected' = FALSE
    /\ UNCHANGED <<notClient, _session, _ws, _request_id, calls, sent>>

\* await self._session.close() returns: self._session = None
SessionClosed ==
    /\ kc_pc = "closing_session"
    /\ _session' = "None"
    /\ kc_pc' = "idle"
    /\ connected' = FALSE
    /\ UNCHANGED <<notClient, _ws, _request_id, calls, sent>>

NewCall(method, id, pc, outcome) ==
    [method |-> method, id |-> id, pc |-> pc, response |-> NoResponse, outcome |-> outcome]

\* call(method, params) up to the await of the response
CallBegin(method) ==
    /\ Len(calls) < MaxCalls
    /\ IF _session = "None"
       THEN /\ calls' = Append(calls, NewCall(method, None, "done", NotConnected))
            /\ UNCHANGED <<_request_id, sent>>
       ELSE LET id == NextId(_request_id) IN
            /\ _request_id' = id
            /\ IF _session = "open"
               THEN /\ calls' = Append(calls, NewCall(method, id, "posted", Pending))
                    /\ sent' = Append(sent, id)
               ELSE /\ calls' = Append(calls, NewCall(method, id, "done", SessionIsClosed))
                    /\ sent' = sent
    /\ UNCHANGED <<notClient, _session, _ws, kc_pc, connected>>

\* result = await response.json(), and what call makes of it
CallResponds(c, response) ==
    /\ c \in DOMAIN calls
    /\ calls[c].pc = "posted"
    /\ calls' = [calls EXCEPT ![c].pc = "done", ![c].response = response,
                              ![c].outcome = CallOutcome(response)]
    /\ UNCHANGED <<notClient, _session, _ws, _request_id, kc_pc, sent, connected>>

\* the post or the read of the response raises
CallFails(c) ==
    /\ c \in DOMAIN calls
    /\ calls[c].pc = "posted"
    /\ calls' = [calls EXCEPT ![c].pc = "done", ![c].outcome = TransportError]
    /\ UNCHANGED <<notClient, _session, _ws, _request_id, kc_pc, sent, connected>>

(***************************************************************************)
(* The ToolAdapter.  A process that ends has an exit code and an output    *)
(* that is empty, UTF-8 text, or bytes that are not UTF-8.                 *)
(***************************************************************************)
\* register_tool(name, executable, tool_type)
RegisterTool(name) ==
    /\ _tools' = _tools \cup {name}
    /\ UNCHANGED <<notTools, tool_pc, tool_result, launched>>

\* raise ValueError(f"Unknown tool: {tool}")
UnknownTool == [NoToolResult EXCEPT !.how = "unknown", !.raised = TRUE]

\* except Exception as e: ToolResult(False, -1, "", str(e), ..., {"error": str(e)})
ErrorResult(how, code, output) ==
    [how |-> how, raised |-> FALSE, code |-> code, output |-> output,
     success |-> FALSE, exit_code |-> -1, metadata |-> {"error"}]

\* except asyncio.TimeoutError: ToolResult(False, -1, ..., {"timeout": True})
TimeoutResult ==
    [how |-> "timeout", raised |-> FALSE, code |-> 0, output |-> "empty",
     success |-> FALSE, exit_code |-> -1, metadata |-> {"timeout"}]

\* Mutant: every process that ended counts as a success.
ExitedResultAlwaysSuccess(code, output) ==
    IF output = "binary"
    THEN ErrorResult("exited", code, output)
    ELSE [how |-> "exited", raised |-> FALSE, code |-> code, output |-> output,
          success |-> TRUE, exit_code |-> code, metadata |-> {}]

\* the ToolResult built after communicate(): stdout.decode() raises
\* UnicodeDecodeError on bytes that are not UTF-8, inside the try block
ExitedResult(code, output) ==
    IF output = "binary"
    THEN ErrorResult("exited", code, output)
    ELSE [how |-> "exited", raised |-> FALSE, code |-> code, output |-> output,
          success |-> (code = 0), exit_code |-> code, metadata |-> {}]

\* execute(tool, ...) up to the await of the process: the lookup, then
\* create_subprocess_exec, which either raises or launches the process
ExecuteBegin(tool, launches) ==
    /\ tool_pc = "idle"
    /\ launched < MaxExecutions
    /\ IF tool \notin _tools
       THEN /\ tool_result' = UnknownTool
            /\ UNCHANGED <<tool_pc, launched>>
       ELSE IF launches
       THEN /\ tool_pc' = "running"
            /\ tool_result' = NoToolResult
            /\ launched' = launched + 1
       ELSE /\ tool_result' = ErrorResult("launch", 0, "empty")
            /\ UNCHANGED <<tool_pc, launched>>
    /\ UNCHANGED <<notTools, _tools>>

\* communicate() returns before the deadline: the process has ended
ProcessExits(code, output) ==
    /\ tool_pc = "running"
    /\ tool_pc' = "idle"
    /\ tool_result' = ExitedResult(code, output)
    /\ UNCHANGED <<notTools, _tools, launched>>

\* the deadline of wait_for passes first
ExecuteTimesOut ==
    /\ tool_pc = "running"
    /\ tool_pc' = "idle"
    /\ tool_result' = TimeoutResult
    /\ UNCHANGED <<notTools, _tools, launched>>

(***************************************************************************)
(* One lifetime of the agent: start() is called once.                      *)
(***************************************************************************)
Start == StartAgent(1)

\* tasks of the default priority, with either timeout
Submit == \E tt \in SubmitTypes, to \in Timeouts : SubmitTask(tt, DefaultPriority, to)

\* tasks of either priority, with a 1 s timeout
SubmitPrioritised == \E tt \in SubmitTypes, p \in Priorities : SubmitTask(tt, p, 1)

\* tasks of the default priority, with a 1 s timeout
SubmitShort == \E tt \in SubmitTypes : SubmitTask(tt, DefaultPriority, 1)

Register == \E tt \in RegisterTypes : RegisterHandler(tt, "h1")

DispatchStep ==
    \E l \in Loops :
        \/ Dequeue(l)
        \/ PollTimeout(l)
        \/ \E r \in {PingResult, StatusResult, ExecuteResult, UserDict, UserScalar} :
              HandlerReturns(l, r)
        \/ \E exc \in HandlerExceptions : HandlerRaises(l, exc)
        \/ HandlerTimesOut(l)

HeartbeatStep == \E l \in Loops : HeartbeatIterate(l)

HeartbeatRpcStep == \E l \in Loops : HeartbeatSent(l) \/ HeartbeatFailed(l)

(***************************************************************************)
(* Spec: the dispatch side.  The heartbeat loop that start() creates reads *)
(* only _running and writes only last_heartbeat and its own position,      *)
(* which no action of the dispatch side reads; its steps are left to       *)
(* FairSpec.  No action reads a task's priority: tasks of different        *)
(* priorities are left to SpecFifo.                                        *)
(***************************************************************************)
Next ==
    \/ Start
    \/ Stop
    \/ Submit
    \/ Register
    \/ DispatchStep
    \/ Tick

Spec == Init /\ [][Next]_vars

NextFifo ==
    \/ Start
    \/ Stop
    \/ SubmitPrioritised
    \/ Register
    \/ DispatchStep
    \/ Tick

SpecFifo == Init /\ [][NextFifo]_vars

(***************************************************************************)
(* SpecRestart: start() may be called again, while the first dispatch loop *)
(* is still running or after stop(); each call runs its own dispatch loop. *)
(***************************************************************************)
StartAgain == \E l \in Loops : StartAgent(l)

NextRestart ==
    \/ StartAgain
    \/ Stop
    \/ SubmitShort
    \/ Register
    \/ DispatchStep
    \/ Tick

SpecRestart == Init /\ [][NextRestart]_vars

(***************************************************************************)
(* SpecHandlers: handlers are registered for a type with a default handler *)
(* and for one without, h1 before start() and h2 after it, so that the     *)
(* handler a task ran with tells when it was registered.                   *)
(***************************************************************************)
OverrideTypes == {"ping", "job"}

RegisterBeforeStart ==
    /\ loop_pc[1] = "init"
    /\ \E tt \in OverrideTypes : RegisterHandler(tt, "h1")

RegisterAfterStart ==
    /\ loop_pc[1] # "init"
    /\ \E tt \in OverrideTypes : RegisterHandler(tt, "h2")

NextHandlers ==
    \/ Start
    \/ Stop
    \/ SubmitShort
    \/ RegisterBeforeStart
    \/ RegisterAfterStart
    \/ DispatchStep
    \/ Tick

SpecHandlers == Init /\ [][NextHandlers]_vars

(***************************************************************************)
(* SpecInserts: a ContextManager of some size, and set_working called with *)
(* the distinct keys k0, k1, ... one after another and nothing in between. *)
(***************************************************************************)
ShortTermSizes == {1, 9, 19, DefaultMaxShortTerm}

InitInserts ==
    /\ InitAgent
    /\ has_client = FALSE
    /\ \E size \in ShortTermSizes : NewContextManager(size, FALSE)
    /\ InitKernelClient
    /\ InitToolAdapter

InsertNext == SetWorking(set_count, "v")

SpecInserts == InitInserts /\ [][InsertNext]_vars

(***************************************************************************)
(* SpecWorking: a ContextManager of 9 or of 19 working entries, so that an *)
(* eviction removes one entry or two.  A writer sets fresh keys (k0, k1,   *)
(* ... in turn) and, once the tier is full, sets two of its keys again; on *)
(* the full tier a reader first reads k1 or k3, twice, and from then on    *)
(* the first entry it has not read yet; it also asks for a key that is     *)
(* absent.  One long-term entry is stored and retrieved before the working *)
(* tier fills up.                                                          *)
(***************************************************************************)
WorkingSizes == {9, 19}
FreeReads == 2
FreeKeys == {1, 3}
OverwriteKeys == {0, 5}
AbsentKey == 99
LongTermKey == <<"a">>
AbsentLongTermKey == <<"z">>

InitWorking ==
    /\ InitAgent
    /\ has_client = FALSE
    /\ \E size \in WorkingSizes : NewContextManager(size, FALSE)
    /\ InitKernelClient
    /\ InitToolAdapter

\* the entries no get_working has touched since they were set
Unread(entries) == {entries[i].key : i \in {j \in DOMAIN entries : entries[j].access_count = 0}}

WriteNext == set_count < max_short_term + ExtraSets /\ SetWorking(set_count, "v")

WriteAgain ==
    /\ set_count < max_short_term + ExtraSets
    /\ Len(_short_term) >= max_short_term
    /\ \E key \in OverwriteKeys \cap KeysOf(_short_term) : SetWorking(key, "w")

ReadPresent ==
    \E key \in KeysOf(_short_term) :
        /\ Len(_short_term) >= max_short_term
        /\ \/ clock <= FreeReads /\ key \in FreeKeys
           \/ key \in Unread(_short_term) /\ \A k \in Unread(_short_term) : key <= k
        /\ GetWorking(key)

ReadAbsent == GetWorking(AbsentKey)

StoreOne ==
    /\ Len(_short_term) <= 1
    /\ Store(LongTermKey, StrValue(<<"h", "i">>), "fact")

RetrieveAny ==
    /\ Len(_short_term) <= 1
    /\ clock <= FreeReads
    /\ \E key \in {LongTermKey, AbsentLongTermKey} : Retrieve(key)

NextWorking ==
    \/ WriteNext
    \/ WriteAgain
    \/ ReadPresent
    \/ ReadAbsent
    \/ StoreOne
    \/ RetrieveAny

SpecWorking == InitWorking /\ [][NextWorking]_vars

(***************************************************************************)
(* SpecLongTerm: a ContextManager with or without a storage_path, without  *)
(* a similarity index; store, search and a restart that loads the stored   *)
(* entries into a fresh ContextManager.                                    *)
(***************************************************************************)
Hello == <<"h", "e", "l", "l", "o">>
HelloWorld == Hello \o <<" ", "w", "o", "r", "l", "d">>
Xyz == <<"x", "y", "z">>

StoreKeys == {<<"a">>, <<"B">>}
StoreValues == {StrValue(HelloWorld), StrValue(<<"H", "E", "Y">>), ListValue(<<"x", "y">>),
                TupleValue(<<"x", "y">>), SetValue(<<"x", "y">>)}
MemoryTypes == {"fact"}
Queries == {Hello, Xyz, <<"b">>, <<"H", "e">>, <<"Y">>}
Limits == 0..MaxLimit

InitLongTerm ==
    /\ InitAgent
    /\ has_client = FALSE
    /\ \E path \in BOOLEAN : NewContextManager(DefaultMaxShortTerm, path)
    /\ InitKernelClient
    /\ InitToolAdapter

StoreAny == \E key \in StoreKeys, value \in StoreValues, mt \in MemoryTypes : Store(key, value, mt)
SearchAny == \E query \in Queries, limit \in Limits : Search(query, limit)

NextLongTerm ==
    \/ StoreAny
    \/ SearchAny
    \/ Reload

SpecLongTerm == InitLongTerm /\ [][NextLongTerm]_vars

(***************************************************************************)
(* SpecIndex: a ContextManager with faiss, of a dimension the hash fills   *)
(* (8) or the default one (384), with or without a storage_path; store,    *)
(* search with a limit of 1 or more, and a restart.                        *)
(***************************************************************************)
EmbeddingDims == {HashFloats, DefaultEmbeddingDim}
IndexValues == {StrValue(Hello), ListValue(<<"x", "y">>)}
IndexQueries == {Hello}
IndexLimits == 1..MaxLimit

InitIndex ==
    /\ InitAgent
    /\ has_client = FALSE
    /\ \E path \in BOOLEAN, dim \in EmbeddingDims :
          NewContextManagerWith(DefaultMaxShortTerm, path, TRUE, dim)
    /\ InitKernelClient
    /\ InitToolAdapter

StoreIndexed ==
    \E key \in StoreKeys, value \in IndexValues, mt \in MemoryTypes : Store(key, value, mt)
SearchIndexed == \E query \in IndexQueries, limit \in IndexLimits : Search(query, limit)

NextIndex ==
    \/ StoreIndexed
    \/ SearchIndexed
    \/ Reload

SpecIndex == InitIndex /\ [][NextIndex]_vars

(***************************************************************************)
(* SpecClient: a KernelClient that is connected and disconnected any       *)
(* number of times while calls are made and answered in any order.         *)
(***************************************************************************)
Methods == {"kernel.status"}
Responses == {ErrorResponse("boom"), BareErrorResponse, ResultResponse("ok"), NoResponse,
              [ErrorResponse("boom") EXCEPT !.has_result = TRUE, !.result = "ok"]}
CallIds == 1..MaxCalls

InitClientOnly == InitAgent /\ has_client = FALSE /\ InitOthers

CallAny == \E method \in Methods : CallBegin(method)
RespondAny == \E c \in CallIds, response \in Responses : CallResponds(c, response)
FailAny == \E c \in CallIds : CallFails(c)

NextClient ==
    \/ ConnectBegin
    \/ ConnectDone
    \/ ConnectFailed
    \/ DisconnectBegin
    \/ WsClosed
    \/ SessionClosed
    \/ CallAny
    \/ RespondAny
    \/ FailAny

SpecClient == InitClientOnly /\ [][NextClient]_vars

(***************************************************************************)
(* SpecTools: a ToolAdapter, tools registered and executed one at a time.  *)
(***************************************************************************)
ToolNames == {"git", "mytool", "nope"}
CustomTools == {"mytool", "other"}
ExitCodes == {0, 1, -9}
Outputs == {"empty", "utf8", "binary"}

InitTools == Init

RegisterAnyTool == \E name \in CustomTools : RegisterTool(name)
ExecuteAny == \E tool \in ToolNames, launches \in BOOLEAN : ExecuteBegin(tool, launches)
ProcessExitsAny == \E code \in ExitCodes, output \in Outputs : ProcessExits(code, output)

NextTools ==
    \/ RegisterAnyTool
    \/ ExecuteAny
    \/ ProcessExitsAny
    \/ ExecuteTimesOut

SpecTools == InitTools /\ [][NextTools]_vars

(***************************************************************************)
(* FairDispatch: the dispatch side with tasks of a 1 s timeout, under the  *)
(* scheduling the event loop gives: the dispatch loop runs whenever it can *)
(* (a handler ends or is cut off at its deadline) and time passes.         *)
(***************************************************************************)
NextShort ==
    \/ Start
    \/ Stop
    \/ SubmitShort
    \/ Register
    \/ DispatchStep
    \/ Tick

FairDispatch == Init /\ [][NextShort]_vars /\ WF_vars(DispatchStep) /\ WF_vars(Tick)

(***************************************************************************)
(* FairSpec: both loops, with or without a kernel client, tasks of the     *)
(* default priority and a 1 s timeout.  The event loop runs every runnable *)
(* coroutine, a                                                            *)
(* handler ends or is cut off at its deadline, the heartbeat RPC ends, and *)
(* time passes.                                                            *)
(***************************************************************************)
NextLoops ==
    \/ Start
    \/ Stop
    \/ SubmitShort
    \/ Register
    \/ DispatchStep
    \/ HeartbeatStep
    \/ HeartbeatRpcStep
    \/ Tick

FairSpec ==
    /\ InitClient
    /\ [][NextLoops]_vars
    /\ WF_vars(DispatchStep)
    /\ WF_vars(HeartbeatStep)
    /\ WF_vars(HeartbeatRpcStep)
    /\ WF_vars(Tick)

(***************************************************************************)
(* Vocabulary of the properties.                                           *)
(***************************************************************************)
Created == DOMAIN tasks
Terminal(t) == tasks[t].status \in {"completed", "failed"}
InFlight == \E l \in Loops : loop_pc[l] = "handler"
TerminalTasks == {t \in Created : Terminal(t)}
\* t leaves `from` for another status in this step
Leaves(t, from) == t \in Created /\ tasks[t].status = from /\ tasks'[t].status # from
\* seconds since wait_for started on the handler loop l awaits
Elapsed(l) == tasks[loop_task[l]].timeout - handler_left[l]
LoopsExited == \A l \in Loops : loop_pc[l] \in {"init", "done"} /\ hb_pc[l] \in {"init", "done"}

(***************************************************************************)
(* C1 (as stated): every task submitted while the agent is running reaches *)
(* a terminal status.  Stated on the final state of a run: once the        *)
(* dispatch loop has ended, no task submitted while running is left        *)
(* without a terminal status.                                              *)
(***************************************************************************)
C1_SubmittedWhileRunningFinish ==
    loop_pc[1] = "done" => \A t \in Created : hist[t].sub_running => Terminal(t)

(***************************************************************************)
(* C1 (amended): every task the dispatch loop dequeues eventually reaches  *)
(* a terminal status, and so does every task submitted while the agent is  *)
(* running unless stop() is called; a terminal task never changes again;   *)
(* a completed task has a result and no error, a failed task an error and  *)
(* no result, and a task that is not terminal has neither.                 *)
(***************************************************************************)
C1_ResultXorError ==
    \A t \in Created :
        /\ tasks[t].status = "completed" =>
              tasks[t].result # NoneValue /\ tasks[t].error = NoneError
        /\ tasks[t].status = "failed" =>
              tasks[t].error # NoneError /\ tasks[t].result = NoneValue
        /\ ~Terminal(t) => tasks[t].result = NoneValue /\ tasks[t].error = NoneError

C1_TerminalIsFinal ==
    \A t \in Created : Terminal(t) => tasks'[t] = tasks[t]

C1_DequeuedTasksFinish ==
    /\ []C1_ResultXorError
    /\ [][C1_TerminalIsFinal]_vars
    /\ \A t \in TaskIds :
          /\ (t \in Created /\ tasks[t].status = "running") ~> (t \in TerminalTasks)
          /\ (t \in Created /\ hist[t].sub_running) ~> (t \in TerminalTasks \/ stopped)

\* A task went through each of the two terminal statuses in one run.
C1_Witness ==
    /\ \E t \in Created : tasks[t].status = "completed" /\ hist[t].sub_running
    /\ \E t \in Created : tasks[t].status = "failed" /\ hist[t].sub_running

(***************************************************************************)
(* C2: finalization runs exactly once per processed task: the step that    *)
(* makes a task terminal adds 1 to task_count and 1 to exactly one of      *)
(* success_count / failure_count, clears current_task and sets the status  *)
(* to idle, and no other step changes a counter; so whenever no task is in *)
(* flight, task_count = success_count + failure_count = the number of      *)
(* terminal tasks.                                                         *)
(***************************************************************************)
C2_CountersAgree ==
    ~InFlight =>
        /\ agent.task_count = agent.success_count + agent.failure_count
        /\ agent.task_count = Cardinality(TerminalTasks)

C2_FinalizeStep ==
    LET done == {t \in Created : ~Terminal(t) /\ tasks'[t].status \in {"completed", "failed"}}
    IN  IF done = {}
        THEN /\ agent'.task_count = agent.task_count
             /\ agent'.success_count = agent.success_count
             /\ agent'.failure_count = agent.failure_count
        ELSE /\ Cardinality(done) = 1
             /\ agent'.task_count = agent.task_count + 1
             /\ \A t \in done :
                   /\ tasks'[t].status = "completed" =>
                         /\ agent'.success_count = agent.success_count + 1
                         /\ agent'.failure_count = agent.failure_count
                   /\ tasks'[t].status = "failed" =>
                         /\ agent'.failure_count = agent.failure_count + 1
                         /\ agent'.success_count = agent.success_count
                         /\ agent'.last_error = tasks'[t].error
             /\ agent'.current_task = None
             /\ agent'.status = "idle"

C2_FinalizedOnce == []C2_CountersAgree /\ [][C2_FinalizeStep]_vars

\* Two tasks were processed, one on the success path and one on a failure path.
C2_Witness ==
    /\ ~InFlight
    /\ agent.task_count = 2
    /\ agent.success_count = 1
    /\ agent.failure_count = 1

(***************************************************************************)
(* C3: with one dispatch loop, tasks are dispatched in the order of their  *)
(* submission (task ids are handed out in that order), whatever their      *)
(* priorities: when a task has left the queue, every task submitted before *)
(* it is already terminal, and the queue holds the pending tasks oldest    *)
(* first.                                                                  *)
(***************************************************************************)
C3_Fifo ==
    /\ \A a, b \in Created :
          a < b /\ tasks[b].status # "pending" => Terminal(a)
    /\ \A i, j \in DOMAIN _task_queue : i < j => _task_queue[i] < _task_queue[j]

\* The later task has the smaller priority number and still ran second.
C3_Witness ==
    /\ Len(tasks) >= 2
    /\ tasks[2].priority < tasks[1].priority
    /\ Terminal(1)
    /\ tasks[2].status = "running"

(***************************************************************************)
(* C4 (as stated): once stop() has been called, submit fails and leaves    *)
(* the queue unchanged: no step after stop() adds a task to the queue.     *)
(***************************************************************************)
C4_QueueClosedAfterStop ==
    [][stopped => Len(_task_queue') <= Len(_task_queue)]_vars

(***************************************************************************)
(* C5 (as stated): a task submitted to a running agent that fails by       *)
(* timing out does so within timeout + poll interval of its submission.    *)
(* hist[t].waited is the time the task spent in the queue, Elapsed(l) the  *)
(* time since its handler was started.                                     *)
(***************************************************************************)
TimesOutNow(l) ==
    /\ loop_pc[l] = "handler"
    /\ tasks'[loop_task[l]].status = "failed"
    /\ hist'[loop_task[l]].outcome = "timeout"

C5_WithinTimeoutOfSubmission ==
    [][\A l \in Loops :
          TimesOutNow(l) /\ hist[loop_task[l]].sub_running =>
             hist[loop_task[l]].waited + Elapsed(l)
                <= tasks[loop_task[l]].timeout + PollInterval]_vars

(***************************************************************************)
(* C5 (amended): a handler never runs past its deadline; a task that times *)
(* out becomes failed exactly timeout seconds after its handler was        *)
(* started, with the error "Task timed out after <timeout_ms>ms" and no    *)
(* result; and a failed task never becomes completed.                      *)
(***************************************************************************)
C5_DeadlineKept ==
    \A l \in Loops :
        loop_pc[l] = "handler" =>
            /\ handler_left[l] >= 0
            /\ Elapsed(l) <= tasks[loop_task[l]].timeout

C5_TimeoutStep ==
    /\ \A l \in Loops :
          TimesOutNow(l) =>
             /\ Elapsed(l) = tasks[loop_task[l]].timeout
             /\ tasks'[loop_task[l]].error = TimeoutError(tasks[loop_task[l]].timeout)
             /\ tasks'[loop_task[l]].result = NoneValue
    /\ \A t \in Created : tasks[t].status = "failed" => tasks'[t].status = "failed"

C5_TimeoutFromDispatch == []C5_DeadlineKept /\ [][C5_TimeoutStep]_vars

\* A task with a 2 s timeout, submitted to the running agent, timed out.
C5_Witness ==
    \E t \in Created :
        /\ tasks[t].status = "failed"
        /\ hist[t].outcome = "timeout"
        /\ hist[t].sub_running
        /\ tasks[t].timeout = 2
        /\ t > 1

(***************************************************************************)
(* C6 (as stated): when a handler raises an error, the task is failed with *)
(* error equal to the error's message and no result, and last_error is     *)
(* that message right after the step.                                      *)
(***************************************************************************)
C6_ErrorIsRaisedMessage ==
    \A t \in Created :
        hist[t].outcome = "raise" =>
            /\ tasks[t].status = "failed"
            /\ tasks[t].error = hist[t].raised
            /\ tasks[t].result = NoneValue

(***************************************************************************)
(* C7: dispatching a task whose type has no handler fails the task in that *)
(* same step with the error "No handler for task type: <type>", starts no  *)
(* handler, adds 1 to task_count and to failure_count, leaves the agent    *)
(* idle and the loop on its way to the next iteration.                     *)
(***************************************************************************)
C7_Step ==
    \A t \in Created :
        Leaves(t, "pending") /\ _handlers[tasks[t].task_type] = NoHandler =>
            /\ tasks'[t].status = "failed"
            /\ tasks'[t].error = NoHandlerError(tasks[t].task_type)
            /\ tasks'[t].result = NoneValue
            /\ hist'[t].handler = NoHandler
            /\ \A l \in Loops : loop_pc'[l] # "handler"
            /\ agent'.task_count = agent.task_count + 1
            /\ agent'.failure_count = agent.failure_count + 1
            /\ agent'.success_count = agent.success_count
            /\ agent'.status = "idle"
            /\ agent'.current_task = None
            /\ \E l \in Loops : loop_pc[l] = "wait" /\ loop_pc'[l] = LoopAgain(_running)

C7_NoHandlerFails == [][C7_Step]_vars

\* A task without a handler failed and a later task was still processed.
C7_Witness ==
    /\ Len(tasks) >= 2
    /\ tasks[1].status = "failed"
    /\ tasks[1].error = NoHandlerError("job")
    /\ tasks[2].status = "completed"

(***************************************************************************)
(* C8: when a handler returns, the task is completed in that step with no  *)
(* error and with the returned mapping as result, or {"result": value} for *)
(* any other value, and success_count grows by 1; a "ping" task (handled   *)
(* by the default handler) never fails and its result holds pong = True    *)
(* and a timestamp.                                                        *)
(***************************************************************************)
C8_Step ==
    \A l \in Loops :
        LET t == loop_task[l] IN
        loop_pc[l] = "handler" /\ hist'[t].outcome = "return" =>
            /\ tasks'[t].status = "completed"
            /\ tasks'[t].error = NoneError
            /\ hist'[t].returned.isdict => tasks'[t].result = hist'[t].returned
            /\ ~hist'[t].returned.isdict =>
                  tasks'[t].result = [isdict |-> TRUE, keys |-> {"result"},
                                      val |-> hist'[t].returned.val]
            /\ agent'.success_count = agent.success_count + 1
            /\ agent'.failure_count = agent.failure_count

C8_Ping ==
    \A t \in Created :
        tasks[t].task_type = "ping" /\ tasks[t].status \notin {"pending", "running"} =>
            /\ tasks[t].status = "completed"
            /\ {"pong", "timestamp"} \subseteq tasks[t].result.keys
            /\ tasks[t].result.val = "True"

C8_ReturnCompletes == []C8_Ping /\ [][C8_Step]_vars

\* One task completed with a wrapped value and a ping task with its pong.
C8_Witness ==
    /\ \E t \in Created :
          /\ tasks[t].status = "completed"
          /\ ~hist[t].returned.isdict
          /\ tasks[t].result.keys = {"result"}
    /\ \E t \in Created : tasks[t].task_type = "ping" /\ tasks[t].status = "completed"

(***************************************************************************)
(* C9 (as stated): once stop() has been called no pending task is moved to *)
(* running (or beyond).                                                    *)
(***************************************************************************)
C9_NoDequeueAfterStop ==
    [][stopped => \A t \in Created : tasks[t].status = "pending" => tasks'[t].status = "pending"]_vars

(***************************************************************************)
(* C10: stop() only clears the flag: the step leaves every task, the agent *)
(* and both loops where they are; a task in flight at that moment still    *)
(* ends through its handler's return, raise or timeout, and after stop()   *)
(* the dispatch loop and the heartbeat loop both end.                      *)
(***************************************************************************)
C10_StopStep ==
    _running /\ ~_running' =>
        /\ tasks' = tasks
        /\ agent' = agent
        /\ loop_pc' = loop_pc
        /\ hb_pc' = hb_pc
        /\ _task_queue' = _task_queue

C10_NormalEnd ==
    \A t \in Created :
        hist[t].at_stop /\ Terminal(t) => hist[t].outcome \in {"return", "raise", "timeout"}

C10_StopLetsTaskFinish ==
    /\ [][C10_StopStep]_vars
    /\ []C10_NormalEnd
    /\ \A t \in TaskIds : (t \in Created /\ hist[t].at_stop) ~> (t \in TerminalTasks)
    /\ stopped ~> LoopsExited

\* A task that was in flight at stop() has ended and both loops are over.
C10_Witness ==
    /\ stopped
    /\ LoopsExited
    /\ \E t \in Created : hist[t].at_stop /\ Terminal(t)
    /\ agent.task_count >= 1
    /\ agent.status = "idle"

(***************************************************************************)
(* C11: no failure ends the dispatch loop.  The step that makes a task     *)
(* failed (handler raised, handler timed out, no handler) while the agent  *)
(* is running puts the loop back on the queue wait, and a task queued      *)
(* behind a failed one is eventually processed to a terminal status unless *)
(* stop() is called.                                                       *)
(***************************************************************************)
C11_FailureStep ==
    \A t \in Created :
        Leaves(t, tasks[t].status) /\ tasks'[t].status = "failed" /\ _running =>
            /\ \E l \in Loops : loop_pc[l] \in {"wait", "handler"} /\ loop_pc'[l] = "wait"
            /\ \A l \in Loops : loop_pc[l] # "done" => loop_pc'[l] # "done"

C11_LoopSurvivesFailures ==
    /\ [][C11_FailureStep]_vars
    /\ \A t \in TaskIds :
          (/\ t \in Created
           /\ tasks[t].status = "pending"
           /\ \E a \in Created : a < t /\ tasks[a].status = "failed")
             ~> (t \in TerminalTasks \/ stopped)

\* The first task failed, and the one behind it was still processed by a
\* loop that nobody stopped.
C11_Witness ==
    /\ ~stopped
    /\ _running
    /\ Len(tasks) >= 2
    /\ tasks[1].status = "failed"
    /\ hist[1].outcome \in {"raise", "timeout", "nohandler"}
    /\ Terminal(2)

(***************************************************************************)
(* C12: a heartbeat notification that raises changes nothing of the agent  *)
(* (health, status, counters, the last_heartbeat stamped before the call)  *)
(* and does not end the loop: the loop sleeps heartbeat_interval, wakes no *)
(* earlier than that, and then attempts the next notification unless the   *)
(* agent has been stopped.  Every iteration that notifies has stamped      *)
(* last_heartbeat first.                                                   *)
(***************************************************************************)
C12_FailureStep ==
    \A l \in Loops :
        hb_pc[l] = "rpc" /\ hb_pc'[l] # "rpc" /\ hb_failed'[l] =>
            /\ agent' = agent
            /\ agent.last_heartbeat # None
            /\ _running' = _running
            /\ hb_pc'[l] = "sleep"
            /\ hb_left'[l] = HeartbeatInterval

C12_StampStep ==
    \A l \in Loops :
        hb_pc[l] # "rpc" /\ hb_pc'[l] = "rpc" =>
            /\ agent'.last_heartbeat # agent.last_heartbeat
            /\ agent'.last_heartbeat # None

C12_WakeStep ==
    \A l \in Loops : hb_pc[l] = "sleep" /\ hb_pc'[l] # "sleep" => hb_left[l] = 0

C12_HeartbeatSurvivesFailure ==
    /\ [][C12_FailureStep /\ C12_StampStep /\ C12_WakeStep]_vars
    /\ \A l \in Loops :
          (hb_failed[l] /\ hb_pc[l] = "sleep") ~> (hb_pc[l] = "rpc" \/ ~_running)

\* The notification before this one raised, the agent is as healthy as
\* before and the next notification is under way.
C12_Witness ==
    /\ _running
    /\ hb_failed[1]
    /\ hb_pc[1] = "rpc"
    /\ agent.health = "healthy"
    /\ agent.last_heartbeat # None

(***************************************************************************)
(* C13 (as stated): at every moment at most max_concurrent_tasks tasks are *)
(* in status running, and no task is held by two handler invocations at    *)
(* once.                                                                   *)
(***************************************************************************)
C13_AtMostOneRunning ==
    /\ Cardinality({t \in Created : tasks[t].status = "running"}) <= MaxConcurrentTasks
    /\ \A k, l \in Loops :
          k # l /\ loop_pc[k] = "handler" /\ loop_pc[l] = "handler" =>
              loop_task[k] # loop_task[l]

(***************************************************************************)
(* C14 (as stated): after every set_working call the working tier holds at *)
(* most max_short_term entries, whatever max_short_term >= 1 is.           *)
(***************************************************************************)
C14_WorkingTierBounded == Len(_short_term) <= max_short_term

(***************************************************************************)
(* C15: when distinct keys are inserted one after another with no access   *)
(* in between, the insert that brings the tier to max_short_term + 1       *)
(* entries evicts exactly floor((max_short_term + 1) / 10) entries, the    *)
(* earliest-inserted ones (the keys are numbered in insertion order), and  *)
(* keeps the others in order; with max_short_term = 100 and k0..k100, the  *)
(* tier then holds k10..k100, 91 entries.                                  *)
(***************************************************************************)
C15_EvictStep ==
    Len(_short_term) = max_short_term /\ set_count' = set_count + 1 =>
        LET put == KeysOf(_short_term) \cup {set_count}
            k == (max_short_term + 1) \div 10
            kept == KeysOf(_short_term')
        IN  /\ Cardinality(put \ kept) = k
            /\ kept \subseteq put
            /\ \A a \in put \ kept, b \in kept : a < b
            /\ Len(_short_term') = max_short_term + 1 - k
            /\ \A i, j \in DOMAIN _short_term' :
                  i < j => _short_term'[i].key < _short_term'[j].key

C15_Example ==
    max_short_term = 100 /\ set_count = 101 =>
        /\ KeysOf(_short_term) = 10..100
        /\ Len(_short_term) = 91

C15_EvictsEarliestInserted == [][C15_EvictStep]_vars /\ []C15_Example

\* k0..k100 have been inserted into a tier of size 100 and k0 is gone.
C15_Witness ==
    /\ max_short_term = 100
    /\ set_count = 101
    /\ 0 \notin KeysOf(_short_term)
    /\ 100 \in KeysOf(_short_term)

(***************************************************************************)
(* C16: without a similarity index, search(query, limit) does not fail and *)
(* returns at most limit results, each with score 0.5 and each the key and *)
(* value of a long-term entry whose key or JSON-serialized value contains  *)
(* the query, case-insensitively; on a tier holding only {"a": "hello      *)
(* world"} it returns that entry for "hello" and nothing for "xyz".        *)
(***************************************************************************)
C16_Results ==
    last_search.searched =>
        /\ ~last_search.raised
        /\ Len(last_search.results) <= last_search.limit
        /\ \A i \in DOMAIN last_search.results :
              LET r == last_search.results[i] IN
              /\ r.score = "0.5"
              /\ r.key \in KeysOf(_long_term)
              /\ r.value = ValueOf(_long_term, r.key)
              /\ \/ Contains(Lower(JsonDumps(r.value)), Lower(last_search.query))
                 \/ Contains(Lower(r.key), Lower(last_search.query))

C16_Example ==
    /\ last_search.searched
    /\ last_search.limit >= 1
    /\ KeysOf(_long_term) = {<<"a">>}
    /\ ValueOf(_long_term, <<"a">>) = StrValue(HelloWorld)
    => /\ last_search.query = Hello =>
             /\ Len(last_search.results) = 1
             /\ last_search.results[1].key = <<"a">>
             /\ last_search.results[1].value = StrValue(HelloWorld)
       /\ last_search.query = Xyz => last_search.results = <<>>

C16_KeywordSearch == C16_Results /\ C16_Example

\* Two entries match the query and the limit of 1 cut the second one off.
C16_Witness ==
    /\ last_search.searched
    /\ last_search.limit = 1
    /\ Len(last_search.results) = 1
    /\ Len(_long_term) = 2
    /\ \A i \in DOMAIN _long_term : Matches(_long_term[i], last_search.query)

(***************************************************************************)
(* C17 (as stated): after store calls on a store with a persistence sink,  *)
(* a fresh store that has loaded the sink returns from retrieve(key), for  *)
(* every stored key, the value of the last store of that key.              *)
(***************************************************************************)
C17_RoundTrip ==
    storage_path /\ reloaded =>
        \A key \in DOMAIN last_stored : ValueOf(_long_term, key) = last_stored[key]

(***************************************************************************)
(* C18: a call whose response carries an error member ends by raising an   *)
(* error whose text is the message of that member, and returns nothing; a  *)
(* call whose response carries no error member returns the response's      *)
(* result (None when there is none).                                       *)
(***************************************************************************)
Answered == {c \in DOMAIN calls : calls[c].pc = "done" /\ calls[c].outcome # TransportError
                                      /\ calls[c].outcome # NotConnected
                                      /\ calls[c].outcome # SessionIsClosed}

C18_ErrorResponseRaises ==
    \A c \in Answered :
        LET r == calls[c].response
            o == calls[c].outcome
        IN  /\ r.has_error =>
                  /\ o.kind = "raised"
                  /\ o.value = "None"
                  /\ r.has_message => o.error = r.message
            /\ ~r.has_error =>
                  /\ o.kind = "returned"
                  /\ o.error = "None"
                  /\ o.value = (IF r.has_result THEN r.result ELSE "None")

\* One call was answered {"error": {"message": "boom"}} and raised "boom",
\* another was answered {"result": "ok"} and returned "ok".
C18_Witness ==
    /\ \E c \in Answered : calls[c].response = ErrorResponse("boom")
                              /\ calls[c].outcome = Raised("boom")
    /\ \E c \in Answered : calls[c].response = ResultResponse("ok")
                              /\ calls[c].outcome = Returned("ok")

(***************************************************************************)
(* C19: a call made while the client is not connected (no connect() has    *)
(* returned yet, or disconnect() has returned since) raises "Not           *)
(* connected", posts no request and takes no correlation id; a call made   *)
(* once connect() has returned again takes the next id and is posted.      *)
(***************************************************************************)
CallIssued == Len(calls') = Len(calls) + 1

C19_Step ==
    CallIssued /\ kc_pc = "idle" =>
        LET new == calls'[Len(calls')] IN
        IF connected
        THEN /\ new.outcome = Pending
             /\ new.id = _request_id + 1
             /\ sent' = Append(sent, new.id)
        ELSE /\ new.outcome = NotConnected
             /\ new.id = None
             /\ _request_id' = _request_id
             /\ sent' = sent

C19_NotConnected == [][C19_Step]_vars

\* A call was answered, the next one was made after disconnect() and raised
\* "Not connected", and a third one made after a new connect() was answered.
C19_Witness ==
    /\ Len(calls) = 3
    /\ calls[1].outcome.kind = "returned"
    /\ calls[2].outcome = NotConnected
    /\ calls[3].outcome.kind = "returned"
    /\ sent = <<1, 2>>

(***************************************************************************)
(* C20: the correlation ids are strictly increasing in the order the calls *)
(* are made and none is used twice, also with several calls in flight and  *)
(* across disconnect / connect cycles; _request_id never goes down.        *)
(***************************************************************************)
WithId == {c \in DOMAIN calls : calls[c].id # None}

C20_Increasing ==
    /\ \A c, d \in WithId : c < d => calls[c].id < calls[d].id
    /\ \A i, j \in DOMAIN sent : i < j => sent[i] < sent[j]
    /\ \A c \in WithId : calls[c].id <= _request_id

C20_IdsIncrease == []C20_Increasing /\ [][_request_id' >= _request_id]_vars

\* Two calls are in flight at once, and between them the client was
\* disconnected (a call in between raised "Not connected") and connected again.
C20_Witness ==
    /\ Len(calls) = 3
    /\ calls[1].pc = "posted"
    /\ calls[2].outcome = NotConnected
    /\ calls[3].pc = "posted"
    /\ calls[1].id < calls[3].id

(***************************************************************************)
(* C21 (as stated): execute of a registered tool returns a ToolResult: on  *)
(* a timeout success = false, exit_code = -1 and metadata timeout; on a    *)
(* launch failure success = false, exit_code = -1 and metadata error; for  *)
(* a process that ended, success = true exactly when its exit code is 0.   *)
(* Only an unregistered tool makes execute raise, and then nothing is      *)
(* launched.                                                               *)
(***************************************************************************)
C21_ResultOfExecute ==
    LET r == tool_result IN
    /\ r.raised <=> r.how = "unknown"
    /\ r.how = "timeout" =>
          ~r.success /\ r.exit_code = -1 /\ "timeout" \in r.metadata
    /\ r.how = "launch" =>
          ~r.success /\ r.exit_code = -1 /\ "error" \in r.metadata
    /\ r.how = "exited" => (r.success <=> r.code = 0)

(***************************************************************************)
(* C22 (as stated): Agent.status is idle or executing; it turns from idle  *)
(* to executing only in a step that takes a task off the queue, and from   *)
(* executing to idle only in a step in which the handler of the task being *)
(* executed (current_task) returns, times out or raises.                   *)
(***************************************************************************)
C22_StatusStep ==
    /\ agent'.status \in {"idle", "executing"}
    /\ (agent.status = "idle" /\ agent'.status = "executing") =>
          /\ _task_queue # <<>>
          /\ _task_queue' = Tail(_task_queue)
          /\ agent'.current_task = Head(_task_queue)
    /\ (agent.status = "executing" /\ agent'.status = "idle") =>
          /\ agent.current_task # None
          /\ Leaves(agent.current_task, "running")
          /\ tasks'[agent.current_task].status \in {"completed", "failed"}

C22_StatusMachine == [][C22_StatusStep]_vars

(***************************************************************************)
(* C23: the two loops progress independently.  While the agent is running  *)
(* last_heartbeat is stamped again and again, whatever the dispatch loop   *)
(* does (a handler in flight, an empty queue); a task waiting in the queue *)
(* of a running agent is dequeued, whatever the heartbeat loop does (a     *)
(* notification pending or failed); and a step of one loop, start() apart, *)
(* leaves the position of the other loop alone.                            *)
(***************************************************************************)
C23_FrameStep ==
    (\A l \in Loops : loop_pc[l] = "init" <=> loop_pc'[l] = "init") =>
        /\ hb_pc' # hb_pc =>
              loop_pc' = loop_pc /\ tasks' = tasks /\ _task_queue' = _task_queue
        /\ loop_pc' # loop_pc =>
              hb_pc' = hb_pc /\ agent'.last_heartbeat = agent.last_heartbeat

C23_LoopsIndependent ==
    /\ [][C23_FrameStep]_vars
    /\ \A v \in 0..MaxBeats :
          (_running /\ agent.last_heartbeat = v)
             ~> (agent.last_heartbeat # v \/ ~_running)
    /\ \A t \in TaskIds :
          (t \in Created /\ tasks[t].status = "pending" /\ _running)
             ~> ((t \in Created /\ tasks[t].status # "pending") \/ ~_running)

\* A second task is in flight while a notification is pending, the one
\* before it failed, and last_heartbeat has been stamped at least twice.
C23_Witness ==
    /\ _running
    /\ Len(tasks) >= 2
    /\ Terminal(1)
    /\ tasks[2].status = "running"
    /\ hb_pc[1] = "rpc"
    /\ hb_failed[1]
    /\ agent.last_heartbeat = 2

(***************************************************************************)
(* C24: the dispatch loop does not retry.  A task is in the queue only     *)
(* while it is pending, and at most once; a task that is running or        *)
(* terminal never goes back to pending and a failed task stays as it is;   *)
(* no step changes a task's retry_count or max_retries, and retry_count    *)
(* never exceeds max_retries.                                              *)
(***************************************************************************)
QueuePlaces(t) == {i \in DOMAIN _task_queue : _task_queue[i] = t}

C24_QueuedOnce ==
    \A t \in Created :
        /\ Cardinality(QueuePlaces(t)) <= 1
        /\ tasks[t].status # "pending" => QueuePlaces(t) = {}
        /\ tasks[t].retry_count <= tasks[t].max_retries

C24_Step ==
    \A t \in Created :
        /\ tasks'[t].retry_count = tasks[t].retry_count
        /\ tasks'[t].max_retries = tasks[t].max_retries
        /\ tasks[t].status # "pending" => tasks'[t].status # "pending"
        /\ tasks[t].status = "failed" => tasks'[t] = tasks[t] /\ hist'[t] = hist[t]
        /\ hist[t].handler # NoHandler => hist'[t].handler = hist[t].handler

C24_NoRetry == []C24_QueuedOnce /\ [][C24_Step]_vars

\* One task failed at its deadline and one for want of a handler; the loop
\* is back on a queue that holds neither.
C24_Witness ==
    /\ _running
    /\ Len(tasks) >= 2
    /\ \E a, b \in Created :
          /\ hist[a].outcome = "timeout"
          /\ hist[b].outcome = "nohandler"
          /\ tasks[a].status = "failed" /\ tasks[b].status = "failed"
          /\ tasks[a].retry_count = 0 /\ tasks[b].retry_count = 0
    /\ _task_queue = <<>>
    /\ loop_pc[1] = "wait"

(***************************************************************************)
(* C25: register_handler replaces the handler of its type and touches      *)
(* nothing else, before or after start().  A task that leaves the queue is *)
(* given the handler its type has at that moment (or fails if it has       *)
(* none), also when that handler was registered after the task was         *)
(* submitted; the handler a task in flight runs with stays the same when   *)
(* another one is registered, and the value a task completes with is one   *)
(* that handler returns.                                                   *)
(***************************************************************************)
C25_DispatchStep ==
    \A t \in Created :
        Leaves(t, "pending") =>
            LET h == _handlers[tasks[t].task_type] IN
            IF h = NoHandler
            THEN hist'[t].outcome = "nohandler" /\ hist'[t].handler = NoHandler
            ELSE /\ hist'[t].handler = h
                 /\ \E l \in Loops : loop_task'[l] = t /\ loop_handler'[l] = h

C25_RegisterStep ==
    _handlers' # _handlers =>
        /\ \E tt \in HandlerTypes, h \in UserHandlers :
              _handlers' = [_handlers EXCEPT ![tt] = h]
        /\ UNCHANGED <<agent, _running, _task_queue, tasks, loopVars, hist>>

C25_InFlight ==
    /\ \A l \in Loops :
          loop_pc[l] = "handler" => loop_handler[l] = hist[loop_task[l]].handler
    /\ \A t \in Created :
          hist[t].outcome = "return" =>
              /\ hist[t].returned \in Returns(hist[t].handler)
              /\ tasks[t].result = WrapResult(hist[t].returned)

C25_HandlerAtDispatch ==
    /\ [][C25_DispatchStep /\ C25_RegisterStep]_vars
    /\ []C25_InFlight

\* A ping submitted before start() ran with h2, registered after start() in
\* place of the default; a job is in flight with h1 while its type has h2.
C25_Witness ==
    /\ Len(tasks) >= 2
    /\ \E a, b \in Created :
          /\ tasks[a].task_type = "ping"
          /\ ~hist[a].sub_running
          /\ hist[a].handler = "h2"
          /\ tasks[a].status = "completed"
          /\ tasks[b].task_type = "job"
          /\ tasks[b].status = "running"
          /\ hist[b].handler = "h1"
          /\ _handlers["job"] = "h2"

(***************************************************************************)
(* C26: when a set_working evicts, no evicted entry ranks strictly higher  *)
(* than an entry that survives, the rank being (access_count,              *)
(* last_accessed) in ascending order with a never-accessed entry at the    *)
(* minimum time; the survivors are left as they were.  The ranks are those *)
(* at the moment of the eviction: the entry just written has access_count  *)
(* 0 and was never accessed.                                               *)
(***************************************************************************)
RanksHigher(a, b) ==
    \/ a.access_count > b.access_count
    \/ a.access_count = b.access_count /\ a.last_accessed > b.last_accessed

C26_EvictStep ==
    set_count' = set_count + 1 =>
        LET written == NewWorkingEntry(last_access'.key, last_access'.value)
            before == PutEntry(_short_term, written)
            kept == {i \in DOMAIN before : before[i].key \in KeysOf(_short_term')}
            evicted == DOMAIN before \ kept
        IN  /\ \A i \in evicted, j \in kept : ~RanksHigher(before[i], before[j])
            /\ _short_term' = SelectSeq(before, LAMBDA e : e.key \in KeysOf(_short_term'))

C27_PresentStep ==
    clock' # clock =>
        LET op == last_access'.op
            key == last_access'.key
            tier == IF op = "get" THEN _short_term ELSE _long_term
            after == IF op = "get" THEN _short_term' ELSE _long_term'
        IN  /\ op \in {"get", "retrieve"}
            /\ last_access'.found
            /\ key \in KeysOf(tier)
            /\ DOMAIN after = DOMAIN tier
            /\ \A i \in DOMAIN tier :
                  IF tier[i].key = key
                  THEN /\ last_access'.value = tier[i].value
                       /\ after[i] = [tier[i] EXCEPT !.access_count = @ + 1,
                                                     !.last_accessed = clock]
                       /\ after[i].last_accessed # tier[i].last_accessed
                  ELSE after[i] = tier[i]
            /\ IF op = "get" THEN _long_term' = _long_term ELSE _short_term' = _short_term
            /\ UNCHANGED <<max_short_term, set_count, storage_path, storage>>

C27_AbsentStep ==
    (/\ last_access' # last_access
     /\ last_access'.op \in {"get", "retrieve"}
     /\ ~last_access'.found) =>
        /\ last_access'.key \notin
              KeysOf(IF last_access'.op = "get" THEN _short_term ELSE _long_term)
        /\ last_access'.value = None
        /\ UNCHANGED <<workingVars, storage_path, _long_term, storage, clock>>

C27_AccessTracking == [][C27_PresentStep /\ C27_AbsentStep]_vars

\* get_working has just returned the value of an entry and counted the
\* access, and the long-term entry, retrieved once, is as that retrieve left it.
C27_Witness ==
    /\ last_access.op = "get"
    /\ last_access.found
    /\ last_access.value = "v"
    /\ \E i \in DOMAIN _short_term :
          /\ _short_term[i].key = last_access.key
          /\ _short_term[i].access_count = 1
          /\ _short_term[i].last_accessed = clock - 1
    /\ \E i \in DOMAIN _long_term :
          _long_term[i].access_count = 1 /\ _long_term[i].last_accessed = 1

(***************************************************************************)
(* C30 (as stated): right after set_working(key, value) has returned,      *)
(* get_working(key) returns value, whatever the tier held before.          *)
(***************************************************************************)
C30_ReadYourWrite ==
    last_access.op = "set" =>
        /\ last_access.key \in KeysOf(_short_term)
        /\ Lookup(_short_term, last_access.key) = last_access.value

(***************************************************************************)
(* C29 (as stated): whatever start() and stop() calls are made, at most    *)
(* one dispatch loop and at most one heartbeat loop are active at a time.  *)
(***************************************************************************)
ActiveDispatchLoops == {l \in Loops : loop_pc[l] \in {"wait", "handler"}}
ActiveHeartbeatLoops == {l \in Loops : hb_pc[l] \in {"scheduled", "rpc", "sleep"}}

C29_OneLoopOfEachKind ==
    /\ Cardinality(ActiveDispatchLoops) <= 1
    /\ Cardinality(ActiveHeartbeatLoops) <= 1

(***************************************************************************)
(* C28: in every order of store and search calls the mapping from index    *)
(* slots to keys stays consistent with the similarity index: the index     *)
(* holds as many vectors as the mapping has entries, on the slots 0, 1,    *)
(* ..., slot i maps to the key of the i-th store that added a vector, and  *)
(* a search returns only keys the long-term tier holds, with their values. *)
(***************************************************************************)
C28_MappingConsistent ==
    /\ DOMAIN _id_to_key = 0..(Len(_index.vectors) - 1)
    /\ Cardinality(DOMAIN _id_to_key) = Len(_index.vectors)
    /\ Len(indexed) = Len(_index.vectors)
    /\ \A i \in DOMAIN _id_to_key : _id_to_key[i] = indexed[i + 1]
    /\ last_search.searched =>
          \A i \in DOMAIN last_search.results :
              LET r == last_search.results[i] IN
              /\ r.key \in KeysOf(_long_term)
              /\ r.value = ValueOf(_long_term, r.key)

\* Three vectors were added, the third for a key stored before, and a
\* search has returned two different keys.
C28_Witness ==
    /\ _index.exists
    /\ Len(_index.vectors) = 3
    /\ _id_to_key[0] = <<"a">>
    /\ _id_to_key[1] = <<"B">>
    /\ _id_to_key[2] = <<"a">>
    /\ last_search.searched
    /\ ~last_search.raised
    /\ Len(last_search.results) = 2
    /\ last_search.results[1].key # last_search.results[2].key

(***************************************************************************)
(* C31 (as stated): with a similarity index, a search returns each         *)
(* long-term key at most once, also after the key was stored again.        *)
(***************************************************************************)
C31_EachKeyOnce ==
    (_index.exists /\ last_search.searched) =>
        \A i, j \in DOMAIN last_search.results :
            i # j => last_search.results[i].key # last_search.results[j].key

====
